---- MODULE Spec2Model ----
(***************************************************************************)
(* ringlog: event framing, the single-threaded RingBuffer and the          *)
(* lock-free SpscRingBuffer (one Producer, one Consumer).                  *)
(*                                                                         *)
(* Bytes are numbers 0..255.  A buffer is a function from positions        *)
(* 0..capacity-1 to bytes.  An EventHeader is held as its fields; the two  *)
(* wide fields (timestamp: u64, _reserved: u32) are held as their          *)
(* little-endian byte images because they exceed TLC's 32-bit integers.    *)
(*                                                                         *)
(* Every record constructor lists its fields in the order in which the     *)
(* field names first occur in this module, the order TLC keeps records in, *)
(* so that no record is re-sorted while several workers share it.          *)
(***************************************************************************)
EXTENDS Integers, Sequences

(***************************************************************************)
(* Bounds of the model.                                                    *)
(***************************************************************************)
\* Width of usize in bits.  Rust allows 16, 32 or 64; the arithmetic of the
\* rings is the same for every width that the capacity divides, and 16 is
\* the width whose counters fit TLC's 32-bit integers.
UsizeBits == 16
\* Number of write_event calls accepted in one run.
MaxWrites == 3
\* RingBuffer::new is tried with every capacity 0..MaxCapacity.
MaxCapacity == 128
\* Number of MmapWriter::write_event calls accepted by one log file.
MaxFileWrites == 2
\* Number of consumers registered with one EventDispatcher.
MaxConsumers == 2
\* Number of mappings MmapWriter::open makes without a writer to own them.
MaxMappings == 2
\* Number of SpscRingBuffer::split calls on one ring.
MaxSplits == 2

Modulus == 2 ^ UsizeBits

\* Inputs of the producers.
Timestamps == {1000, 258}
EventTypes == {1}
PayloadLens == {0, 31, 32}
RingPayloadLens == {0, 15, 40, 64}
Fills == {171}

(***************************************************************************)
(* Integer helpers (usize arithmetic).                                     *)
(***************************************************************************)
\* Mutation: saturating instead of wrapping subtraction.
WrappingSub_Saturating(a, b) == IF a >= b THEN a - b ELSE 0

WrappingSub(a, b) == (a - b) % Modulus

WrappingAdd(a, b) == (a + b) % Modulus

RECURSIVE BitAnd(_, _)
BitAnd(a, b) ==
    IF a = 0 \/ b = 0 THEN 0
    ELSE (a % 2) * (b % 2) + 2 * BitAnd(a \div 2, b \div 2)

RECURSIVE CountOnes(_)
CountOnes(n) == IF n = 0 THEN 0 ELSE (n % 2) + CountOnes(n \div 2)

IsPowerOfTwo(n) == CountOnes(n) = 1

\* Little-endian image of n in k bytes, and its inverse.
RECURSIVE ToLE(_, _)
ToLE(n, k) == IF k = 0 THEN << >> ELSE <<n % 256>> \o ToLE(n \div 256, k - 1)

RECURSIVE FromLE(_)
FromLE(bytes) ==
    IF bytes = << >> THEN 0 ELSE Head(bytes) + 256 * FromLE(Tail(bytes))

(***************************************************************************)
(* Event framing.                                                          *)
(***************************************************************************)
SIZE == 16

EventHeaderNew(timestamp, event_type, payload_len) ==
    [timestamp   |-> ToLE(timestamp, 8),
     event_type  |-> event_type,
     payload_len |-> payload_len,
     flags       |-> 0,
     reserved    |-> ToLE(0, 4)]

TotalSize(header) == SIZE + header.payload_len

\* The 16-byte image of a header (repr(C), little-endian host).
HeaderBytes(header) ==
    header.timestamp \o <<header.event_type, header.flags>>
        \o ToLE(header.payload_len, 2) \o header.reserved

\* read_unaligned of a header from a 16-byte image.
HeaderFromBytes(b) ==
    [timestamp   |-> SubSeq(b, 1, 8),
     event_type  |-> b[9],
     payload_len |-> FromLE(SubSeq(b, 11, 12)),
     flags       |-> b[10],
     reserved    |-> SubSeq(b, 13, 16)]

\* A payload of len bytes, each position distinct: fill, fill+1, ...
Payload(fill, len) == [i \in 1..len |-> (fill + i - 1) % 256]

\* copy_nonoverlapping(src + srcOff, buf + dst, n).  A byte taken from
\* outside src is no byte at all (undefined behaviour): it is marked -1.
CopyIn(b, dst, src, srcOff, n) ==
    [i \in DOMAIN b |->
        IF i >= dst /\ i < dst + n
        THEN IF (srcOff + (i - dst) + 1) \in DOMAIN src
             THEN src[srcOff + (i - dst) + 1] ELSE -1
        ELSE b[i]]

\* copy_nonoverlapping(buf + from, out, n): the n bytes at from..from+n-1.
\* A byte taken from outside the array is marked -1 in the same way.
CopyOut(b, from, n) ==
    [i \in 1..n |->
        IF (from + i - 1) \in DOMAIN b THEN b[from + i - 1] ELSE -1]

ZeroBuf(capacity) == [i \in 0..(capacity - 1) |-> 0]

RECURSIVE SumSizes(_)
SumSizes(recs) ==
    IF recs = << >> THEN 0
    ELSE TotalSize(Head(recs).header) + SumSizes(Tail(recs))

(***************************************************************************)
(* State.                                                                  *)
(***************************************************************************)
VARIABLES
    rb,           \* the RingBuffer: [buf, capacity, head, tail]
    rbLive,       \* TRUE once RingBuffer::new has returned Ok
    rbRet,        \* what the last RingBuffer call returned
    rbAccepted,   \* records of the successful write_event calls, in order
    rbReturned    \* records returned by the successful read_event calls

VARIABLES
    spsc,         \* the SpscRingBuffer: [buf, capacity, mask, head, tail]
    prod,         \* the Producer's call in progress: position, locals and
                  \* what its last call returned ("true", "false")
    cons,         \* the Consumer's call in progress: position and locals
    headHist,     \* every value stored to the atomic head, oldest first
    tailHist,     \* every value stored to the atomic tail, oldest first
    prodSeen,     \* index in tailHist of the store the producer last loaded
    consSeen,     \* index in headHist of the store the consumer last loaded
    accepted,     \* records of the write_event calls that returned true
    returned,     \* records returned by the read_event calls
    prodWrote,    \* buffer positions written by the producer's current call
    consRead      \* buffer positions read by the consumer's current call

VARIABLES
    file,         \* the log file: [exists, len, data]; data holds the bytes
                  \* up to the highest one ever written, the rest of the
                  \* len bytes are the zeros set_len extended the file with
    dirty,        \* TRUE while the mapping holds bytes no msync has flushed
    writer,       \* the MmapWriter: [live, mmap_len, write_offset], and
                  \* resumed: the number of records the file held when
                  \* open made this writer (0 for one made by create)
    wrRet,        \* what the last MmapWriter call returned (and, for
                  \* write_event, the header it was called with)
    written,      \* records of the write_event calls that returned true
                  \* since the file was created, in order, each with the
                  \* resumed of the writer that wrote it
    reader,       \* the MmapReader: [live, mmap_len, file_header]
    iter,         \* the EventIterator: [live, offset, end]
    rdRet,        \* what the last MmapReader / EventIterator call returned
    yielded,      \* events the iterator has returned since iter()
    wcall,        \* the write_event call in progress: [step, at, header,
                  \* payload], step 0 while no call is in progress
    mapped        \* the number of live mappings made by the functions of
                  \* MmapWriter and by those of MmapReader

VARIABLES
    consumers,    \* the consumers registered with the EventDispatcher
    dispRet       \* the last drain or drain_batch call: its limit, its
                  \* DrainStats, its consume calls in order with what each
                  \* answered, the flush calls per consumer, and turn: the
                  \* parity of the number of calls made, which tells two
                  \* calls of equal results apart

VARIABLES
    ends          \* the endpoints split has handed out for the ring: the
                  \* number of Producers and of Consumers, and parked: the
                  \* call in progress of the second Producer, with its
                  \* prodSeen and prodWrote, while the first one's steps are
                  \* taken (prod holds the Producer whose steps are taken)

VARIABLES
    running,      \* the shutdown flag (AtomicBool), TRUE until shutdown
    sprod,        \* the stress producer thread: [pc, count]
    scons         \* the stress consumer thread: [pc, count]

ringVars == <<rb, rbLive, rbRet, rbAccepted, rbReturned>>

spscVars == <<spsc, prod, cons, headHist, tailHist, prodSeen, consSeen,
              accepted, returned, prodWrote, consRead>>

mmapVars == <<file, dirty, writer, wrRet, written, reader, iter, rdRet,
              yielded, wcall, mapped>>

dispVars == <<consumers, dispRet>>

stressVars == <<running, sprod, scons>>

\* What the actions of one component leave unchanged.
notRingVars == <<spscVars, mmapVars, dispVars, stressVars, ends>>

notSpscVars == <<ringVars, mmapVars, dispVars, stressVars, ends>>

vars == <<rb, rbLive, rbRet, rbAccepted, rbReturned,
          spsc, prod, cons, headHist, tailHist, prodSeen, consSeen,
          accepted, returned, prodWrote, consRead,
          file, dirty, writer, wrRet, written, reader, iter, rdRet, yielded,
          wcall, mapped,
          consumers, dispRet,
          running, sprod, scons, ends>>

(***************************************************************************)
(* RingBuffer (single-threaded).                                           *)
(***************************************************************************)
NoRing == [capacity |-> 0, buf |-> << >>, head |-> 0, tail |-> 0]

\* Mutation: the minimum capacity is one header instead of two.
RingBufferNew_MinSize(capacity) ==
    IF ~IsPowerOfTwo(capacity)
    THEN [capacity |-> capacity, ok |-> FALSE, err |-> "InvalidCapacity",
          reason |-> "must be a power of two"]
    ELSE IF capacity < SIZE
    THEN [capacity |-> capacity, ok |-> FALSE, err |-> "InvalidCapacity",
          reason |-> "too small, must be at least 2x EventHeader::SIZE"]
    ELSE [ok |-> TRUE,
          ring |-> [capacity |-> capacity, buf |-> ZeroBuf(capacity),
                    head |-> 0, tail |-> 0]]

\* RingBuffer::new: the Result it returns.
RingBufferNew(capacity) ==
    IF ~IsPowerOfTwo(capacity)
    THEN [capacity |-> capacity, ok |-> FALSE, err |-> "InvalidCapacity",
          reason |-> "must be a power of two"]
    ELSE IF capacity < SIZE * 2
    THEN [capacity |-> capacity, ok |-> FALSE, err |-> "InvalidCapacity",
          reason |-> "too small, must be at least 2x EventHeader::SIZE"]
    ELSE [ok |-> TRUE,
          ring |-> [capacity |-> capacity, buf |-> ZeroBuf(capacity),
                    head |-> 0, tail |-> 0]]

\* Mutation: the distance is not masked with capacity - 1.
Used_NoMask(r) == WrappingSub(r.head, r.tail)

Used(r) == BitAnd(WrappingSub(r.head, r.tail), r.capacity - 1)

\* Mutation: the sacrificed byte is not subtracted.
Available_OffByOne(r) == r.capacity - Used(r)

Available(r) == r.capacity - Used(r) - 1

IsEmpty(r) == r.head = r.tail

\* Mutation: the second chunk of a split payload is taken from the start of
\* the payload instead of from first_chunk.
RingWriteBytes_SecondChunkFromStart(r, header, payload) ==
    LET total_size == TotalSize(header)
        start == r.head
        contiguous_space == r.capacity - start
        plen == Len(payload)
        hb == HeaderBytes(header)
    IN  IF total_size <= contiguous_space
        THEN CopyIn(CopyIn(r.buf, start, hb, 0, SIZE),
                    start + SIZE, payload, 0, plen)
        ELSE IF contiguous_space >= SIZE
        THEN LET first_chunk == contiguous_space - SIZE
                 b1 == CopyIn(r.buf, start, hb, 0, SIZE)
                 b2 == CopyIn(b1, start + SIZE, payload, 0, first_chunk)
             IN  CopyIn(b2, 0, payload, 0, WrappingSub(plen, first_chunk))
        ELSE LET b1 == CopyIn(r.buf, start, hb, 0, contiguous_space)
                 b2 == CopyIn(b1, 0, hb, contiguous_space,
                              SIZE - contiguous_space)
             IN  CopyIn(b2, SIZE - contiguous_space, payload, 0, plen)

\* The byte copies of RingBuffer::write_event, by its three branches.  Each
\* copies payload.len() bytes of payload; payload.len() - first_chunk is a
\* usize subtraction, taken as the wrapping one of a release build.
RingWriteBytes(r, header, payload) ==
    LET total_size == TotalSize(header)
        start == r.head
        contiguous_space == r.capacity - start
        plen == Len(payload)
        hb == HeaderBytes(header)
    IN  IF total_size <= contiguous_space
        THEN CopyIn(CopyIn(r.buf, start, hb, 0, SIZE),
                    start + SIZE, payload, 0, plen)
        ELSE IF contiguous_space >= SIZE
        THEN LET first_chunk == contiguous_space - SIZE
                 b1 == CopyIn(r.buf, start, hb, 0, SIZE)
                 b2 == CopyIn(b1, start + SIZE, payload, 0, first_chunk)
             IN  CopyIn(b2, 0, payload, first_chunk,
                        WrappingSub(plen, first_chunk))
        ELSE LET b1 == CopyIn(r.buf, start, hb, 0, contiguous_space)
                 b2 == CopyIn(b1, 0, hb, contiguous_space,
                              SIZE - contiguous_space)
             IN  CopyIn(b2, SIZE - contiguous_space, payload, 0, plen)

\* Mutation: head advances by the header only.
RingNextHead_HeaderOnly(r, header) == BitAnd(r.head + SIZE, r.capacity - 1)

RingNextHead(r, header) ==
    BitAnd(r.head + TotalSize(header), r.capacity - 1)

\* RingBuffer::read_event on a non-empty ring: the header it reassembles.
RingReadHeader(r) ==
    LET start == r.tail
        contiguous == r.capacity - start
    IN  IF contiguous >= SIZE
        THEN HeaderFromBytes(CopyOut(r.buf, start, SIZE))
        ELSE HeaderFromBytes(CopyOut(r.buf, start, contiguous)
                             \o CopyOut(r.buf, 0, SIZE - contiguous))

\* ... and the payload it copies out.
RingReadPayload(r, header) ==
    LET mask == r.capacity - 1
        payload_len == header.payload_len
        payload_start == BitAnd(r.tail + SIZE, mask)
        payload_contiguous == r.capacity - payload_start
    IN  IF payload_len <= payload_contiguous
        THEN CopyOut(r.buf, payload_start, payload_len)
        ELSE CopyOut(r.buf, payload_start, payload_contiguous)
             \o CopyOut(r.buf, 0, payload_len - payload_contiguous)

\* Mutation: tail is advanced without the mask.
RingNextTail_NoMask(r, header) == r.tail + TotalSize(header)

\* The tail read_event stores: (start + total_size) & mask.
RingNextTail(r, header) ==
    BitAnd(r.tail + TotalSize(header), r.capacity - 1)

RingInit ==
    /\ rb = NoRing
    /\ rbLive = FALSE
    /\ rbRet = [op |-> "none"]
    /\ rbAccepted = << >>
    /\ rbReturned = << >>

RingNew(capacity) ==
    /\ ~rbLive
    /\ LET res == RingBufferNew(capacity)
       IN  IF res.ok
           THEN /\ rb' = res.ring
                /\ rbLive' = TRUE
                /\ rbRet' = [capacity |-> capacity, ok |-> TRUE, op |-> "new"]
           ELSE /\ rbRet' = [capacity |-> res.capacity, ok |-> FALSE,
                             err |-> res.err, reason |-> res.reason,
                             op |-> "new"]
                /\ UNCHANGED <<rb, rbLive>>
    /\ UNCHANGED <<rbAccepted, rbReturned>>
    /\ UNCHANGED notRingVars

RingWriteEvent(header, payload) ==
    /\ rbLive
    /\ Len(rbAccepted) < MaxWrites
    /\ LET total_size == TotalSize(header)
           available == Available(rb)
       IN  IF total_size > available
           THEN /\ rbRet' = [ok |-> FALSE, err |-> "NotEnoughSpace",
                             op |-> "write", available |-> available,
                             required |-> total_size]
                /\ UNCHANGED <<rb, rbAccepted>>
           ELSE /\ rb' = [rb EXCEPT !.buf = RingWriteBytes(rb, header, payload),
                                    !.head = RingNextHead(rb, header)]
                /\ rbRet' = [ok |-> TRUE, op |-> "write"]
                /\ rbAccepted' =
                       Append(rbAccepted, [header |-> header, payload |-> payload])
    /\ UNCHANGED <<rbLive, rbReturned>>
    /\ UNCHANGED notRingVars

RingReadEvent ==
    /\ rbLive
    /\ IF IsEmpty(rb)
       THEN /\ rbRet' = [op |-> "read", some |-> FALSE]
            /\ UNCHANGED <<rb, rbReturned>>
       ELSE LET header == RingReadHeader(rb)
                payload == RingReadPayload(rb, header)
            IN  /\ rb' = [rb EXCEPT !.tail = RingNextTail(rb, header)]
                /\ rbRet' = [header |-> header, payload |-> payload,
                             op |-> "read", some |-> TRUE]
                /\ rbReturned' =
                       Append(rbReturned, [header |-> header, payload |-> payload])
    /\ UNCHANGED <<rbLive, rbAccepted>>
    /\ UNCHANGED notRingVars

(***************************************************************************)
(* SpscRingBuffer.  Each load or store of an atomic and each copy into or  *)
(* out of the byte array is one step, so the steps of one write_event and  *)
(* one read_event interleave freely.  An Acquire load of the other side's  *)
(* index may return any store not older than the one it returned before    *)
(* (the atomic's modification order); a load of the side's own index       *)
(* returns the latest store, which that side made itself.                  *)
(***************************************************************************)
MinSpscCapacity == 64

\* SpscRingBuffer::new, with head = tail = base (base is 0 in the code).
SpscNew(capacity, base) ==
    [capacity |-> capacity, buf |-> ZeroBuf(capacity),
     head |-> base, tail |-> base, mask |-> capacity - 1]

SpscIsEmpty(r) == r.head = r.tail

NoHeader == EventHeaderNew(0, 0, 0)

SpscInitAt(base) ==
    /\ spsc = SpscNew(MinSpscCapacity, base)
    /\ prod = [header |-> NoHeader, head |-> base, tail |-> base,
               payload |-> << >>, pc |-> "idle", ret |-> "none"]
    /\ cons = [bytes |-> << >>, head |-> base, tail |-> base,
               payload |-> << >>, pc |-> "idle", ret |-> [op |-> "none"]]
    /\ headHist = <<base>>
    /\ tailHist = <<base>>
    /\ prodSeen = 1
    /\ consSeen = 1
    /\ accepted = << >>
    /\ returned = << >>
    /\ prodWrote = {}
    /\ consRead = {}

Span(from, n) == {i \in from..(from + n - 1) : TRUE}

\* The positions the byte copies of RingBuffer::write_event store to, by its
\* three branches; those from capacity on lie behind the backing array.
RingWritePositions(r, header, payload) ==
    LET total_size == TotalSize(header)
        start == r.head
        contiguous_space == r.capacity - start
        plen == Len(payload)
    IN  IF total_size <= contiguous_space
        THEN Span(start, SIZE) \cup Span(start + SIZE, plen)
        ELSE IF contiguous_space >= SIZE
        THEN LET first_chunk == contiguous_space - SIZE
             IN  Span(start, SIZE) \cup Span(start + SIZE, first_chunk)
                     \cup Span(0, WrappingSub(plen, first_chunk))
        ELSE Span(start, contiguous_space)
                 \cup Span(0, SIZE - contiguous_space)
                 \cup Span(SIZE - contiguous_space, plen)

\* Producer locals derived from the loaded head.
ProdStart == BitAnd(prod.head, spsc.mask)

ProdContiguous == spsc.capacity - ProdStart

\* write_event entered: total_size computed, own head loaded (Relaxed).
\* What the entry does to the ring and to the two sides.
P_Enter(header, payload) ==
    /\ prod.pc = "idle"
    /\ prod' = [prod EXCEPT !.pc = "load_tail", !.header = header,
                            !.payload = payload, !.head = spsc.head]
    /\ prodWrote' = {}
    /\ UNCHANGED <<spsc, cons, headHist, tailHist, prodSeen, consSeen,
                   accepted, returned, consRead>>

\* A write_event call of a producer that does nothing else.
P_Call(header, payload) ==
    /\ Len(accepted) < MaxWrites
    /\ P_Enter(header, payload)
    /\ UNCHANGED notSpscVars

\* Mutation: two bytes are sacrificed.
ProdAvailable_TwoSacrificed(head, tail) ==
    spsc.capacity - WrappingSub(head, tail) - 2

\* Mutation: the sacrificed byte is not subtracted.
ProdAvailable_OffByOne(head, tail) ==
    spsc.capacity - WrappingSub(head, tail)

\* The space write_event computes from the head and tail it loaded.
ProdAvailable(head, tail) == spsc.capacity - WrappingSub(head, tail) - 1

\* tail loaded (Acquire), available computed, full check.
P_LoadTail ==
    /\ prod.pc = "load_tail"
    /\ \E k \in prodSeen..Len(tailHist) :
          LET tail == tailHist[k]
              available == ProdAvailable(prod.head, tail)
          IN  /\ prodSeen' = k
              /\ IF TotalSize(prod.header) > available
                 THEN prod' = [prod EXCEPT !.pc = "idle", !.tail = tail,
                                           !.ret = "false"]
                 ELSE prod' = [prod EXCEPT !.pc = "hdr", !.tail = tail]
    /\ UNCHANGED <<spsc, cons, headHist, tailHist, consSeen,
                   accepted, returned, prodWrote, consRead>>
    /\ UNCHANGED notSpscVars

\* write_unaligned of the header, or the first part of a split header.
P_CopyHeader ==
    /\ prod.pc = "hdr"
    /\ LET hb == HeaderBytes(prod.header)
           n == IF TotalSize(prod.header) <= ProdContiguous
                   \/ ProdContiguous >= SIZE
                THEN SIZE ELSE ProdContiguous
       IN  /\ spsc' = [spsc EXCEPT !.buf = CopyIn(@, ProdStart, hb, 0, n)]
           /\ prodWrote' = prodWrote \cup Span(ProdStart, n)
           /\ prod' = [prod EXCEPT !.pc = IF n = SIZE THEN "pay" ELSE "hdr2"]
    /\ UNCHANGED <<cons, headHist, tailHist, prodSeen, consSeen,
                   accepted, returned, consRead>>
    /\ UNCHANGED notSpscVars

\* the rest of a split header, at the start of the array.
P_CopyHeaderRest ==
    /\ prod.pc = "hdr2"
    /\ LET hb == HeaderBytes(prod.header)
           n == SIZE - ProdContiguous
       IN  /\ spsc' = [spsc EXCEPT !.buf = CopyIn(@, 0, hb, ProdContiguous, n)]
           /\ prodWrote' = prodWrote \cup Span(0, n)
    /\ prod' = [prod EXCEPT !.pc = "pay"]
    /\ UNCHANGED <<cons, headHist, tailHist, prodSeen, consSeen,
                   accepted, returned, consRead>>
    /\ UNCHANGED notSpscVars

\* the payload, or its first chunk when the payload is split.
P_CopyPayload ==
    /\ prod.pc = "pay"
    /\ LET plen == Len(prod.payload)
       IN  IF TotalSize(prod.header) <= ProdContiguous
           THEN /\ spsc' = [spsc EXCEPT !.buf =
                      CopyIn(@, ProdStart + SIZE, prod.payload, 0, plen)]
                /\ prodWrote' = prodWrote \cup Span(ProdStart + SIZE, plen)
                /\ prod' = [prod EXCEPT !.pc = "store"]
           ELSE IF ProdContiguous >= SIZE
           THEN LET first_chunk == ProdContiguous - SIZE
                IN  /\ spsc' = [spsc EXCEPT !.buf =
                          IF first_chunk > 0
                          THEN CopyIn(@, ProdStart + SIZE, prod.payload, 0,
                                      first_chunk)
                          ELSE @]
                    /\ prodWrote' =
                          prodWrote \cup Span(ProdStart + SIZE, first_chunk)
                    /\ prod' = [prod EXCEPT !.pc = "pay2"]
           ELSE /\ spsc' = [spsc EXCEPT !.buf =
                      CopyIn(@, SIZE - ProdContiguous, prod.payload, 0, plen)]
                /\ prodWrote' =
                      prodWrote \cup Span(SIZE - ProdContiguous, plen)
                /\ prod' = [prod EXCEPT !.pc = "store"]
    /\ UNCHANGED <<cons, headHist, tailHist, prodSeen, consSeen,
                   accepted, returned, consRead>>
    /\ UNCHANGED notSpscVars

\* the second chunk of a split payload, at the start of the array.
P_CopyPayloadRest ==
    /\ prod.pc = "pay2"
    /\ LET first_chunk == ProdContiguous - SIZE
           n == WrappingSub(Len(prod.payload), first_chunk)
       IN  /\ spsc' = [spsc EXCEPT !.buf =
                  CopyIn(@, 0, prod.payload, first_chunk, n)]
           /\ prodWrote' = prodWrote \cup Span(0, n)
    /\ prod' = [prod EXCEPT !.pc = "store"]
    /\ UNCHANGED <<cons, headHist, tailHist, prodSeen, consSeen,
                   accepted, returned, consRead>>
    /\ UNCHANGED notSpscVars

\* The value write_event stores to head.
ProdNextHead(head, total_size) == WrappingAdd(head, total_size)

\* head.store(head + total_size, Release); return true.
P_StoreHead ==
    /\ prod.pc = "store"
    /\ LET h == ProdNextHead(prod.head, TotalSize(prod.header))
       IN  /\ spsc' = [spsc EXCEPT !.head = h]
           /\ headHist' = Append(headHist, h)
    /\ accepted' = Append(accepted,
                          [header |-> prod.header, payload |-> prod.payload])
    /\ prod' = [prod EXCEPT !.pc = "idle", !.ret = "true"]
    /\ prodWrote' = {}
    /\ UNCHANGED <<cons, tailHist, prodSeen, consSeen, returned, consRead>>
    /\ UNCHANGED notSpscVars

\* A Producer that has made no call.
NoProducer ==
    [prod |-> [header |-> NoHeader, head |-> 0, tail |-> 0,
               payload |-> << >>, pc |-> "idle", ret |-> "none"],
     seen |-> 1, wrote |-> {}]

\* The ring after its first split: one Producer, one Consumer.
SplitInit == ends = [consumers |-> 1, producers |-> 1, parked |-> NoProducer]

\* SpscRingBuffer::split(&self), called again on a ring that is already
\* split: it builds a Producer and a Consumer from the shared reference.
Split ==
    /\ ends.producers < MaxSplits
    /\ ends' = [ends EXCEPT !.producers = @ + 1, !.consumers = @ + 1]
    /\ UNCHANGED <<ringVars, spscVars, mmapVars, dispVars, stressVars>>

\* The thread of the other Producer runs: from here on the P_ steps are
\* those of the Producer that was parked.
P_Switch ==
    /\ ends.producers >= 2
    /\ prod' = ends.parked.prod
    /\ prodSeen' = ends.parked.seen
    /\ prodWrote' = ends.parked.wrote
    /\ ends' = [ends EXCEPT !.parked = [prod |-> prod, seen |-> prodSeen,
                                        wrote |-> prodWrote]]
    /\ UNCHANGED <<spsc, cons, headHist, tailHist, consSeen, accepted,
                   returned, consRead>>
    /\ UNCHANGED <<ringVars, mmapVars, dispVars, stressVars>>

\* Consumer locals derived from the loaded tail.
ConsStart == BitAnd(cons.tail, spsc.mask)

ConsContiguous == spsc.capacity - ConsStart

ConsHeader == HeaderFromBytes(cons.bytes)

\* Mutation: the payload position is not masked with capacity - 1.
ConsPayloadStart_Unmasked == ConsStart + SIZE

ConsPayloadStart == BitAnd(ConsStart + SIZE, spsc.mask)

ConsPayloadContiguous == spsc.capacity - ConsPayloadStart

\* read_event entered: own tail loaded (Relaxed).  What the entry does to
\* the ring and to the two sides.
C_Enter ==
    /\ cons.pc = "idle"
    /\ cons' = [cons EXCEPT !.pc = "load_head", !.tail = spsc.tail,
                            !.bytes = << >>, !.payload = << >>]
    /\ consRead' = {}
    /\ UNCHANGED <<spsc, prod, headHist, tailHist, prodSeen, consSeen,
                   accepted, returned, prodWrote>>

\* A read_event call of a consumer that does nothing else.
C_Call ==
    /\ C_Enter
    /\ UNCHANGED notSpscVars

\* head loaded (Acquire), empty check.
C_LoadHead ==
    /\ cons.pc = "load_head"
    /\ \E k \in consSeen..Len(headHist) :
          LET head == headHist[k]
          IN  /\ consSeen' = k
              /\ IF head = cons.tail
                 THEN cons' = [cons EXCEPT !.pc = "idle", !.head = head,
                                           !.ret = [op |-> "read",
                                                    some |-> FALSE]]
                 ELSE cons' = [cons EXCEPT !.pc = "hdr", !.head = head]
    /\ UNCHANGED <<spsc, prod, headHist, tailHist, prodSeen,
                   accepted, returned, prodWrote, consRead>>
    /\ UNCHANGED notSpscVars

\* read_unaligned of the header, or the first part of a split header.
C_ReadHeader ==
    /\ cons.pc = "hdr"
    /\ LET n == IF ConsContiguous >= SIZE THEN SIZE ELSE ConsContiguous
       IN  /\ cons' = [cons EXCEPT !.bytes = CopyOut(spsc.buf, ConsStart, n),
                                   !.pc = IF n = SIZE THEN "pay" ELSE "hdr2"]
           /\ consRead' = consRead \cup Span(ConsStart, n)
    /\ UNCHANGED <<spsc, prod, headHist, tailHist, prodSeen, consSeen,
                   accepted, returned, prodWrote>>
    /\ UNCHANGED notSpscVars

\* the rest of a split header, from the start of the array.
C_ReadHeaderRest ==
    /\ cons.pc = "hdr2"
    /\ LET n == SIZE - ConsContiguous
       IN  /\ cons' = [cons EXCEPT !.bytes = @ \o CopyOut(spsc.buf, 0, n),
                                   !.pc = "pay"]
           /\ consRead' = consRead \cup Span(0, n)
    /\ UNCHANGED <<spsc, prod, headHist, tailHist, prodSeen, consSeen,
                   accepted, returned, prodWrote>>
    /\ UNCHANGED notSpscVars

\* the payload, or its first chunk when the payload is split.
C_ReadPayload ==
    /\ cons.pc = "pay"
    /\ LET payload_len == ConsHeader.payload_len
           n == IF payload_len <= ConsPayloadContiguous
                THEN payload_len ELSE ConsPayloadContiguous
       IN  /\ cons' = [cons EXCEPT
                  !.payload = CopyOut(spsc.buf, ConsPayloadStart, n),
                  !.pc = IF n = payload_len THEN "store" ELSE "pay2"]
           /\ consRead' = consRead \cup Span(ConsPayloadStart, n)
    /\ UNCHANGED <<spsc, prod, headHist, tailHist, prodSeen, consSeen,
                   accepted, returned, prodWrote>>
    /\ UNCHANGED notSpscVars

\* the second chunk of a split payload, from the start of the array.
C_ReadPayloadRest ==
    /\ cons.pc = "pay2"
    /\ LET n == ConsHeader.payload_len - ConsPayloadContiguous
       IN  /\ cons' = [cons EXCEPT !.payload = @ \o CopyOut(spsc.buf, 0, n),
                                   !.pc = "store"]
           /\ consRead' = consRead \cup Span(0, n)
    /\ UNCHANGED <<spsc, prod, headHist, tailHist, prodSeen, consSeen,
                   accepted, returned, prodWrote>>
    /\ UNCHANGED notSpscVars

\* Mutation: tail advances by the size of the header alone.
ConsNextTail_HeaderOnly(tail, total_size) == WrappingAdd(tail, SIZE)

\* The value read_event stores to tail.
ConsNextTail(tail, total_size) == WrappingAdd(tail, total_size)

\* tail.store(tail + total_size, Release); return Some((header, payload)).
C_StoreTail ==
    /\ cons.pc = "store"
    /\ LET t == ConsNextTail(cons.tail, TotalSize(ConsHeader))
       IN  /\ spsc' = [spsc EXCEPT !.tail = t]
           /\ tailHist' = Append(tailHist, t)
    /\ returned' = Append(returned,
                          [header |-> ConsHeader, payload |-> cons.payload])
    /\ cons' = [cons EXCEPT !.pc = "idle",
                            !.ret = [header |-> ConsHeader,
                                     payload |-> cons.payload,
                                     op |-> "read", some |-> TRUE]]
    /\ consRead' = {}
    /\ UNCHANGED <<prod, headHist, prodSeen, consSeen, accepted, prodWrote>>
    /\ UNCHANGED notSpscVars

(***************************************************************************)
(* Storage: the log file, MmapWriter and MmapReader.  The shared mapping   *)
(* and the file are one byte array: a store through the writer's mapping   *)
(* is what a mapping of the same file reads.                               *)
(***************************************************************************)
FileHeaderSIZE == 64

MAGIC == <<69, 86, 73, 76>>

VERSION == 1

\* create clamps its capacity up to this.
MinFileCapacity == 4096

Zeros(n) == [i \in 1..n |-> 0]

\* Mutation: the new header's write_offset is 0.
FileHeaderNew_OffsetZero(created_at) ==
    [reserved |-> Zeros(32), created_at |-> created_at, magic |-> MAGIC,
     version |-> VERSION, event_count |-> 0,
     write_offset |-> 0]

\* FileHeader::new.
FileHeaderNew(created_at) ==
    [reserved |-> Zeros(32), created_at |-> created_at, magic |-> MAGIC,
     version |-> VERSION, event_count |-> 0,
     write_offset |-> FileHeaderSIZE]

\* Mutation: only the magic is compared.
FileHeaderValidate_MagicOnly(h) == h.magic = MAGIC

FileHeaderValidate(h) == h.magic = MAGIC /\ h.version = VERSION

\* The 64-byte image of a FileHeader (repr(C), little-endian host).
FileHeaderBytes(h) ==
    h.magic \o ToLE(h.version, 4) \o ToLE(h.created_at, 8)
        \o ToLE(h.event_count, 8) \o ToLE(h.write_offset, 8) \o h.reserved

\* read_unaligned of a FileHeader from a 64-byte image.
FileHeaderFromBytes(b) ==
    [reserved |-> SubSeq(b, 33, 64), created_at |-> FromLE(SubSeq(b, 9, 16)),
     magic |-> SubSeq(b, 1, 4),
     version |-> FromLE(SubSeq(b, 5, 8)),
     event_count |-> FromLE(SubSeq(b, 17, 24)),
     write_offset |-> FromLE(SubSeq(b, 25, 32))]

NoFile == [len |-> 0, exists |-> FALSE, data |-> << >>]

\* A file of len bytes whose first bytes are data and whose other bytes are 0.
FileOf(len, data) == [len |-> len, exists |-> TRUE, data |-> data]

Max(a, b) == IF a >= b THEN a ELSE b

Min(a, b) == IF a <= b THEN a ELSE b

\* data, extended with the zeros of the file up to n bytes.
PadTo(data, n) ==
    IF Len(data) >= n THEN data ELSE data \o Zeros(n - Len(data))

\* The n bytes at offsets from..from+n-1 of the file, from + n <= f.len.
FileBytes(f, from, n) == SubSeq(PadTo(f.data, from + n), from + 1, from + n)

\* Stores bytes at offsets at..at+Len(bytes)-1 of the mapping of f.
FilePut(f, at, bytes) ==
    LET n == Min(Len(bytes), Max(f.len - at, 0))
        d == PadTo(f.data, at + n)
    IN  [f EXCEPT !.data = SubSeq(d, 1, at) \o SubSeq(bytes, 1, n)
                               \o SubSeq(d, at + n + 1, Len(d))]

NoWriter == [write_offset |-> 0, live |-> FALSE, mmap_len |-> 0,
             resumed |-> 0]

NoReader == [live |-> FALSE, mmap_len |-> 0,
             file_header |-> FileHeaderNew(0)]

NoIter == [live |-> FALSE, offset |-> 0, end |-> 0]

NoCall == [step |-> 0]

\* libc::mmap and libc::munmap, counted by the side that calls them.
Mmap(m, side) == [m EXCEPT ![side] = @ + 1]

Munmap(m, side) == [m EXCEPT ![side] = @ - 1]

MmapInitWith(f) ==
    /\ file = f
    /\ dirty = FALSE
    /\ writer = NoWriter
    /\ wrRet = [op |-> "none"]
    /\ written = << >>
    /\ reader = NoReader
    /\ iter = NoIter
    /\ rdRet = [op |-> "none"]
    /\ yielded = << >>
    /\ wcall = NoCall
    /\ mapped = [writer |-> 0, reader |-> 0]

MmapInit == MmapInitWith(NoFile)

\* What the actions of the storage leave unchanged.
notMmapVars == <<ringVars, spscVars, dispVars, stressVars, ends>>

\* MmapWriter::create.  The path is not open in any MmapReader (the file is
\* truncated under the mapping otherwise) nor in another MmapWriter.
WriterCreateCall(capacity, now) ==
    /\ ~writer.live
    /\ ~reader.live
    /\ LET cap == Max(capacity, MinFileCapacity)
       IN  /\ file' = FilePut(FileOf(cap, << >>), 0,
                              FileHeaderBytes(FileHeaderNew(now)))
           /\ writer' = [write_offset |-> FileHeaderSIZE, live |-> TRUE,
                         mmap_len |-> cap, resumed |-> 0]
    /\ dirty' = TRUE
    /\ wrRet' = [capacity |-> capacity, ok |-> TRUE, op |-> "create",
                 before |-> Len(file.data)]
    /\ written' = << >>
    /\ mapped' = Mmap(mapped, "writer")
    /\ UNCHANGED <<wcall, reader, iter, rdRet, yielded>>

WriterCreate(capacity, now) ==
    /\ WriterCreateCall(capacity, now)
    /\ UNCHANGED notMmapVars

\* Mutation: a reopened writer starts again behind the file header.
OpenWriteOffset_Reset(header) == FileHeaderSIZE

\* The offset MmapWriter::open resumes at.
OpenWriteOffset(header) == header.write_offset

\* MmapWriter::open.  mmap refuses a length of 0; the error returned for an
\* invalid header leaves the mapping in place.
WriterOpen ==
    /\ ~writer.live
    /\ IF ~file.exists
       THEN /\ wrRet' = [ok |-> FALSE, err |-> "NotFound", op |-> "open"]
            /\ UNCHANGED <<writer, mapped>>
       ELSE IF file.len = 0
       THEN /\ wrRet' = [ok |-> FALSE, err |-> "InvalidInput", op |-> "open"]
            /\ UNCHANGED <<writer, mapped>>
       ELSE LET header == FileHeaderFromBytes(FileBytes(file, 0, FileHeaderSIZE))
            IN  IF ~FileHeaderValidate(header)
                THEN /\ mapped.writer < MaxMappings
                     /\ mapped' = Mmap(mapped, "writer")
                     /\ wrRet' = [ok |-> FALSE, err |-> "InvalidData",
                                  op |-> "open"]
                     /\ UNCHANGED writer
                ELSE /\ mapped' = Mmap(mapped, "writer")
                     /\ writer' = [write_offset |-> OpenWriteOffset(header),
                                   live |-> TRUE, mmap_len |-> file.len,
                                   resumed |-> Len(written)]
                     /\ wrRet' = [ok |-> TRUE, op |-> "open"]
    /\ UNCHANGED <<wcall, file, dirty, written, reader, iter, rdRet, yielded>>
    /\ UNCHANGED notMmapVars

\* Mutation: the bytes of the last record are counted as free.
WriterAvailable_Stale(w) == w.mmap_len - FileHeaderSIZE

\* available(): mmap_len - write_offset, a usize subtraction, taken as the
\* wrapping one of a release build.
WriterAvailable(w) == WrappingSub(w.mmap_len, w.write_offset)

\* Mutation: the header's write_offset field is not refreshed.
UpdateFileHeader_CountOnly(f, write_offset) ==
    LET h == FileHeaderFromBytes(FileBytes(f, 0, FileHeaderSIZE))
    IN  FilePut(f, 16, ToLE(h.event_count + 1, 8))

\* update_file_header: event_count += 1, write_offset = self.write_offset,
\* stored in place in the mapped header.
UpdateFileHeader(f, write_offset) ==
    LET h == FileHeaderFromBytes(FileBytes(f, 0, FileHeaderSIZE))
    IN  FilePut(FilePut(f, 16, ToLE(h.event_count + 1, 8)),
                24, ToLE(write_offset, 8))

\* Mutation: the payload is copied to the start of the record.
WriteRecord_PayloadAtStart(f, at, header, payload) ==
    FilePut(FilePut(f, at, HeaderBytes(header)), at, payload)

\* write_unaligned of the header and copy_nonoverlapping of the payload.
WriteRecord(f, at, header, payload) ==
    FilePut(FilePut(f, at, HeaderBytes(header)), at + SIZE, payload)

\* The images of the records, one behind the other.
RECURSIVE RecordImages(_)
RecordImages(recs) ==
    IF recs = << >> THEN << >>
    ELSE HeaderBytes(Head(recs).header) \o Head(recs).payload
             \o RecordImages(Tail(recs))

\* The offsets write_event stores to: the event header at write_offset and
\* payload.len() bytes behind it.
WriterWritePositions(w, header, payload) ==
    Span(w.write_offset, SIZE) \cup Span(w.write_offset + SIZE, Len(payload))

\* What a store behind the mapping can do: TRUE is the fault that ends the
\* process, FALSE a store that lands in memory that is not the file's.
WriteFaults(w, header, payload) ==
    IF w.write_offset + SIZE + Len(payload) <= w.mmap_len
    THEN {FALSE} ELSE {FALSE, TRUE}

\* MmapWriter::write_event.
WriterWriteEventCall(header, payload) ==
    /\ writer.live
    /\ LET total_size == TotalSize(header)
       IN  IF total_size > WriterAvailable(writer)
           THEN /\ wrRet' = [header |-> header, ok |-> FALSE, op |-> "write"]
                /\ UNCHANGED <<file, dirty, writer, written, mapped>>
           ELSE LET at == writer.write_offset
                    next == at + total_size
                IN  /\ Len(written) < MaxFileWrites
                    /\ dirty' = TRUE
                    /\ \E fault \in WriteFaults(writer, header, payload) :
                          IF fault
                          THEN /\ file' = WriteRecord(file, at, header, payload)
                               /\ writer' = NoWriter
                               /\ mapped' = [mapped EXCEPT !.writer = 0]
                               /\ wrRet' = [header |-> header,
                                            payload |-> payload,
                                            op |-> "fault"]
                               /\ UNCHANGED written
                          ELSE /\ UNCHANGED mapped
                               /\ file' = UpdateFileHeader(
                                      WriteRecord(file, at, header, payload),
                                      next)
                               /\ writer' = [writer EXCEPT
                                                !.write_offset = next]
                               /\ wrRet' = [header |-> header, ok |-> TRUE,
                                            op |-> "write"]
                               /\ written' = Append(written,
                                                    [header |-> header,
                                                     payload |-> payload,
                                                     resumed |-> writer.resumed])
    /\ UNCHANGED <<wcall, reader, iter, rdRet, yielded>>

WriterWriteEvent(header, payload) ==
    /\ WriterWriteEventCall(header, payload)
    /\ UNCHANGED notMmapVars

\* MmapWriter::sync: msync(MS_SYNC) of the whole mapping.
WriterSyncCall ==
    /\ writer.live
    /\ dirty' = FALSE
    /\ wrRet' = [ok |-> TRUE, op |-> "sync"]
    /\ UNCHANGED <<wcall, mapped, file, writer, written, reader, iter, rdRet,
                   yielded>>

WriterSync ==
    /\ WriterSyncCall
    /\ UNCHANGED notMmapVars

\* Drop for MmapWriter: sync, then munmap.
WriterDropCall ==
    /\ writer.live
    /\ dirty' = FALSE
    /\ writer' = NoWriter
    /\ wrRet' = [op |-> "drop"]
    /\ mapped' = Munmap(mapped, "writer")
    /\ UNCHANGED <<wcall, file, written, reader, iter, rdRet, yielded>>

WriterDrop ==
    /\ WriterDropCall
    /\ UNCHANGED notMmapVars

\* Mutation: the in-file header is updated before the record is stored.
WriteOrder_HeaderFirst ==
    <<"advance", "count", "offset", "header", "payload">>

\* The memory writes of an accepted write_event in program order: the event
\* header and the payload behind it, self.write_offset, and the two fields
\* of the in-file header that update_file_header stores one after the other.
WriteOrder == <<"header", "payload", "advance", "count", "offset">>

\* The call in progress is at the memory write of this name.
AtStep(name) ==
    /\ wcall.step \in 1..Len(WriteOrder)
    /\ WriteOrder[wcall.step] = name

\* MmapWriter::write_event up to its first memory write: the comparison
\* with available() and dst, the address of the record.
W_Enter(header, payload) ==
    /\ writer.live
    /\ wcall.step = 0
    /\ IF TotalSize(header) > WriterAvailable(writer)
       THEN /\ wrRet' = [header |-> header, ok |-> FALSE, op |-> "write"]
            /\ UNCHANGED wcall
       ELSE /\ Len(written) < MaxFileWrites
            /\ wcall' = [header |-> header, at |-> writer.write_offset,
                         payload |-> payload, step |-> 1]
            /\ UNCHANGED wrRet
    /\ UNCHANGED <<file, dirty, writer, written, reader, iter, rdRet,
                   yielded, mapped>>
    /\ UNCHANGED notMmapVars

\* The call moves on to its next memory write, or returns true behind the
\* last one.
W_Next ==
    IF wcall.step < Len(WriteOrder)
    THEN /\ wcall' = [wcall EXCEPT !.step = @ + 1]
         /\ UNCHANGED <<wrRet, written>>
    ELSE /\ wcall' = NoCall
         /\ wrRet' = [header |-> wcall.header, ok |-> TRUE, op |-> "write"]
         /\ written' = Append(written,
                              [header |-> wcall.header,
                               payload |-> wcall.payload,
                               resumed |-> writer.resumed])

\* write_unaligned of the event header at dst.
W_StoreHeader ==
    /\ AtStep("header")
    /\ file' = FilePut(file, wcall.at, HeaderBytes(wcall.header))
    /\ dirty' = TRUE
    /\ W_Next
    /\ UNCHANGED <<writer, reader, iter, rdRet, yielded, mapped>>
    /\ UNCHANGED notMmapVars

\* copy_nonoverlapping of the payload behind the event header.
W_CopyPayload ==
    /\ AtStep("payload")
    /\ file' = FilePut(file, wcall.at + SIZE, wcall.payload)
    /\ dirty' = TRUE
    /\ W_Next
    /\ UNCHANGED <<writer, reader, iter, rdRet, yielded, mapped>>
    /\ UNCHANGED notMmapVars

\* self.write_offset += total_size.
W_AdvanceOffset ==
    /\ AtStep("advance")
    /\ writer' = [writer EXCEPT
                     !.write_offset = @ + TotalSize(wcall.header)]
    /\ W_Next
    /\ UNCHANGED <<file, dirty, reader, iter, rdRet, yielded, mapped>>
    /\ UNCHANGED notMmapVars

\* update_file_header, its first store: header.event_count += 1.
W_StoreEventCount ==
    /\ AtStep("count")
    /\ LET h == FileHeaderFromBytes(FileBytes(file, 0, FileHeaderSIZE))
       IN  file' = FilePut(file, 16, ToLE(h.event_count + 1, 8))
    /\ dirty' = TRUE
    /\ W_Next
    /\ UNCHANGED <<writer, reader, iter, rdRet, yielded, mapped>>
    /\ UNCHANGED notMmapVars

\* update_file_header, its second store: header.write_offset =
\* self.write_offset.
W_StoreWriteOffset ==
    /\ AtStep("offset")
    /\ file' = FilePut(file, 24, ToLE(writer.write_offset, 8))
    /\ dirty' = TRUE
    /\ W_Next
    /\ UNCHANGED <<writer, reader, iter, rdRet, yielded, mapped>>
    /\ UNCHANGED notMmapVars

\* What a read of a byte outside the mapping can do: -1 stands for the
\* fault that ends the process, the other values for the byte it returns.
OobOutcomes == {-1, 0}

\* The n bytes at offsets from..from+n-1 as seen through a mapping of
\* mmap_len bytes: bytes of the file, then what lies behind the mapping.
MapBytes(f, mmap_len, from, n, oob) ==
    LET inside == Min(n, Max(mmap_len - from, 0))
    IN  FileBytes(f, from, inside) \o [k \in 1..(n - inside) |-> oob]

\* MmapReader::event_at: the header at offset and the payload_len bytes
\* behind it, with no comparison against mmap_len or write_offset.
EventAt(f, mmap_len, offset, oob) ==
    LET header == HeaderFromBytes(MapBytes(f, mmap_len, offset, SIZE, oob))
    IN  [header |-> header,
         payload |-> MapBytes(f, mmap_len, offset + SIZE,
                              header.payload_len, oob),
         offset |-> offset]

\* MmapReader::open.
ReaderOpen ==
    /\ ~reader.live
    /\ IF ~file.exists
       THEN /\ rdRet' = [ok |-> FALSE, err |-> "NotFound", op |-> "open"]
            /\ UNCHANGED <<reader, mapped>>
       ELSE IF file.len < FileHeaderSIZE
       THEN /\ rdRet' = [ok |-> FALSE, err |-> "InvalidData", op |-> "open"]
            /\ UNCHANGED <<reader, mapped>>
       ELSE LET file_header ==
                    FileHeaderFromBytes(FileBytes(file, 0, FileHeaderSIZE))
            IN  IF ~FileHeaderValidate(file_header)
                THEN /\ mapped' = Munmap(Mmap(mapped, "reader"), "reader")
                     /\ rdRet' = [ok |-> FALSE, err |-> "InvalidData",
                                  op |-> "open"]
                     /\ UNCHANGED reader
                ELSE /\ mapped' = Mmap(mapped, "reader")
                     /\ reader' = [live |-> TRUE, mmap_len |-> file.len,
                                   file_header |-> file_header]
                     /\ rdRet' = [ok |-> TRUE, op |-> "open"]
    /\ UNCHANGED <<wcall, file, dirty, writer, wrRet, written, iter, yielded>>
    /\ UNCHANGED notMmapVars

\* MmapReader::event_count.
EventCount(r) == r.file_header.event_count

\* Mutation: replay starts one event header behind the file header.
ReplayStart_SkipHeader == FileHeaderSIZE + SIZE

\* The offset replay and iter start at.
ReplayStart == FileHeaderSIZE

\* The loop of replay from offset on: the events handed to the callback, or
\* the fault of a read outside the mapping.  total_size() reads the header's
\* payload_len, the bytes offset+10 and offset+11.
RECURSIVE ReplayFrom(_, _, _, _, _, _)
ReplayFrom(f, mmap_len, offset, end, oob, events) ==
    IF offset >= end
    THEN [fault |-> FALSE, events |-> events]
    ELSE IF offset + 12 > mmap_len /\ oob = -1
    THEN [fault |-> TRUE, events |-> events]
    ELSE LET event == EventAt(f, mmap_len, offset, oob)
         IN  ReplayFrom(f, mmap_len, offset + TotalSize(event.header), end,
                        oob, Append(events, event))

\* MmapReader::replay with a callback that keeps what it is handed.
ReaderReplay(oob) ==
    /\ reader.live
    /\ LET run == ReplayFrom(file, reader.mmap_len, ReplayStart,
                             reader.file_header.write_offset, oob, << >>)
       IN  rdRet' = [op |-> "replay", fault |-> run.fault,
                     count |-> Len(run.events), events |-> run.events]
    /\ UNCHANGED <<wcall, mapped, file, dirty, writer, wrRet, written,
                   reader, iter, yielded>>
    /\ UNCHANGED notMmapVars

\* Mutation: the iterator ends at the end of the mapping.
IterEnd_MappingLength(r) == r.mmap_len

\* The offset the iterator ends at: the write_offset of the header copy.
IterEnd(r) == r.file_header.write_offset

\* MmapReader::iter.
ReaderIter ==
    /\ reader.live
    /\ ~iter.live
    /\ iter' = [live |-> TRUE, offset |-> ReplayStart,
                end |-> IterEnd(reader)]
    /\ yielded' = << >>
    /\ rdRet' = [op |-> "iter"]
    /\ UNCHANGED <<wcall, mapped, file, dirty, writer, wrRet, written,
                   reader>>
    /\ UNCHANGED notMmapVars

\* EventIterator::next.
IterNext(oob) ==
    /\ iter.live
    /\ IF iter.offset >= iter.end
       THEN /\ rdRet' = [op |-> "next", some |-> FALSE, fault |-> FALSE]
            /\ UNCHANGED <<iter, yielded>>
       ELSE IF iter.offset + 12 > reader.mmap_len /\ oob = -1
       THEN /\ rdRet' = [op |-> "next", some |-> FALSE, fault |-> TRUE]
            /\ iter' = NoIter
            /\ UNCHANGED yielded
       ELSE LET event == EventAt(file, reader.mmap_len, iter.offset, oob)
            IN  /\ iter' = [iter EXCEPT
                               !.offset = @ + TotalSize(event.header)]
                /\ yielded' = Append(yielded, event)
                /\ rdRet' = [op |-> "next", some |-> TRUE, fault |-> FALSE]
    /\ UNCHANGED <<wcall, mapped, file, dirty, writer, wrRet, written,
                   reader>>
    /\ UNCHANGED notMmapVars

\* The EventIterator goes out of scope.
IterDrop ==
    /\ iter.live
    /\ iter' = NoIter
    /\ rdRet' = [op |-> "none"]
    /\ UNCHANGED <<wcall, mapped, file, dirty, writer, wrRet, written,
                   reader, yielded>>
    /\ UNCHANGED notMmapVars

\* Drop for MmapReader: munmap.  The iterator borrows the reader, so the
\* reader outlives it.
ReaderDrop ==
    /\ reader.live
    /\ ~iter.live
    /\ reader' = NoReader
    /\ rdRet' = [op |-> "none"]
    /\ mapped' = Munmap(mapped, "reader")
    /\ UNCHANGED <<wcall, file, dirty, writer, wrRet, written, iter, yielded>>
    /\ UNCHANGED notMmapVars

(***************************************************************************)
(* EventDispatcher.  A consumer is held as its kind: "counting" answers   *)
(* true to every consume call, "failing" answers false to every call (the  *)
(* two consumers of the tests), "alternate" answers true and false in      *)
(* turn, starting with true at the first record of a drain.                *)
(***************************************************************************)
\* The limit of drain, which has none.
NoLimit == -1

NoStats == [events_read |-> 0, events_delivered |-> 0, events_failed |-> 0]

ConsumerKinds == {"counting", "failing", "alternate"}

\* What consume answers to the i-th record of a drain.
Answer(kind, i) ==
    IF kind = "counting" THEN TRUE
    ELSE IF kind = "failing" THEN FALSE
    ELSE i % 2 = 1

DispInit ==
    /\ consumers = << >>
    /\ dispRet = [op |-> "none", turn |-> 0]

\* What the actions of the dispatcher leave unchanged.
notDispVars == <<spscVars, mmapVars, stressVars, ends>>

\* EventDispatcher::add_consumer.  The consumers are registered before the
\* first drain, as main.rs and the tests do.
AddConsumer(kind) ==
    /\ Len(consumers) < MaxConsumers
    /\ dispRet.op = "none"
    /\ consumers' = Append(consumers, kind)
    /\ UNCHANGED <<dispRet, ringVars>>
    /\ UNCHANGED notDispVars

\* The read_event calls of a drain that return Some: while the ring is not
\* empty and the limit is not used up.  Gives the records and the ring.
RECURSIVE DrainRead(_, _)
DrainRead(r, limit) ==
    IF limit = 0 \/ IsEmpty(r)
    THEN [ring |-> r, events |-> << >>]
    ELSE LET header == RingReadHeader(r)
             payload == RingReadPayload(r, header)
             rest == DrainRead([r EXCEPT !.tail = RingNextTail(r, header)],
                               limit - 1)
         IN  [ring |-> rest.ring,
              events |-> <<[header |-> header, payload |-> payload]>>
                             \o rest.events]

\* Mutation: the loop over the consumers ends at the first one that fails.
RECURSIVE ConsumeAll_StopAtFailure(_, _, _)
ConsumeAll_StopAtFailure(answer, k, c) ==
    IF k > c THEN << >>
    ELSE IF ~answer[k] THEN <<[ok |-> FALSE, consumer |-> k]>>
    ELSE <<[ok |-> TRUE, consumer |-> k]>>
             \o ConsumeAll_StopAtFailure(answer, k + 1, c)

\* for consumer in &mut self.consumers: the consume calls made for one
\* record, consumers k..c in order, with what each answers.
RECURSIVE ConsumeAll(_, _, _)
ConsumeAll(answer, k, c) ==
    IF k > c THEN << >>
    ELSE <<[ok |-> answer[k], consumer |-> k]>>
             \o ConsumeAll(answer, k + 1, c)

\* The consume calls of a whole drain, record after record.
RECURSIVE ConsumeEvents(_, _, _)
ConsumeEvents(events, i, c) ==
    IF i > Len(events) THEN << >>
    ELSE LET answer == [k \in 1..c |-> Answer(consumers[k], i)]
             asked == ConsumeAll(answer, 1, c)
         IN  [j \in 1..Len(asked) |->
                 [ok |-> asked[j].ok, event |-> events[i],
                  consumer |-> asked[j].consumer]]
             \o ConsumeEvents(events, i + 1, c)

RECURSIVE CountOk(_, _)
CountOk(calls, ok) ==
    IF calls = << >> THEN 0
    ELSE (IF Head(calls).ok = ok THEN 1 ELSE 0) + CountOk(Tail(calls), ok)

\* DrainStats of a drain that read the events and made the calls.
Stats(events, calls) ==
    [events_read |-> Len(events),
     events_delivered |-> CountOk(calls, TRUE),
     events_failed |-> CountOk(calls, FALSE)]

\* What the last read_event call of a drain of so many turns returned.
LastRead(events, turns) ==
    IF Len(events) = turns
    THEN IF turns = 0 THEN rbRet
         ELSE [header |-> events[turns].header,
               payload |-> events[turns].payload,
               op |-> "read", some |-> TRUE]
    ELSE [op |-> "read", some |-> FALSE]

\* The body shared by drain and drain_batch: limit is the argument, turns
\* the number of turns of the loop, flush tells whether the consumers are
\* flushed behind the loop.
DrainCall(name, limit, turns, flush) ==
    LET run == DrainRead(rb, turns)
        calls == ConsumeEvents(run.events, 1, Len(consumers))
    IN  /\ rb' = run.ring
        /\ rbRet' = LastRead(run.events, turns)
        /\ rbReturned' = rbReturned \o run.events
        /\ dispRet' = [op |-> name, turn |-> 1 - dispRet.turn,
                       limit |-> limit,
                       calls |-> calls,
                       stats |-> Stats(run.events, calls),
                       flushes |-> [k \in 1..Len(consumers) |->
                                       IF flush THEN 1 ELSE 0]]
        /\ UNCHANGED <<rbLive, rbAccepted, consumers>>
        /\ UNCHANGED notDispVars

\* EventDispatcher::drain.
Drain ==
    /\ rbLive
    /\ DrainCall("drain", NoLimit, NoLimit, TRUE)

\* Mutation: the range of the loop is 0..=limit.
BatchRange_Inclusive(limit) == limit + 1

\* The number of turns of the loop for _ in 0..limit.
BatchRange(limit) == limit

\* EventDispatcher::drain_batch.
DrainBatch(limit) ==
    /\ rbLive
    /\ DrainCall("drain_batch", limit, BatchRange(limit), FALSE)

(***************************************************************************)
(* The stress pipeline (bin/stress.rs): a producer thread and a consumer   *)
(* thread on the two sides of one SpscRingBuffer, and the main thread,     *)
(* which clears the flag running.  A thread's pc is its place in its loop; *)
(* between "write" (or "reading") and its return the thread is inside      *)
(* write_event (or read_event) and takes the steps of that call.           *)
(***************************************************************************)
StressInit ==
    /\ running = TRUE
    /\ sprod = [pc |-> "check", count |-> 0]
    /\ scons = [pc |-> "create", count |-> 0]

\* What the steps of the two threads on the ring, and on the file, leave
\* unchanged.
notStressSpsc == <<ringVars, mmapVars, dispVars, ends>>

notStressMmap == <<ringVars, spscVars, dispVars, ends>>

\* payload_len of the records the producer writes, and the file's capacity.
StressPayloadLen == 64

StressFileCapacity == 1024 * 1024 * 1024

\* What a Relaxed load of running can return: the flag is stored once, to
\* false, and a load may still return the initial true.
RunningSeen == {running, TRUE}

\* while writer_running.load(Relaxed): the producer loads the flag and
\* either enters write_event or leaves its loop.
S_ProdCheck ==
    /\ sprod.pc = "check"
    /\ \E seen \in RunningSeen :
          IF seen
          THEN /\ Len(accepted) < MaxFileWrites
               /\ P_Enter(EventHeaderNew(sprod.count, 1, StressPayloadLen),
                          Zeros(StressPayloadLen))
               /\ sprod' = [sprod EXCEPT !.pc = "write"]
          ELSE /\ sprod' = [sprod EXCEPT !.pc = "done"]
               /\ UNCHANGED spscVars
    /\ UNCHANGED <<running, scons>>
    /\ UNCHANGED notStressSpsc

\* if prod.write_event(..) { count += 1 }: write_event has returned.
S_ProdReturn ==
    /\ sprod.pc = "write"
    /\ prod.pc = "idle"
    /\ sprod' = [pc |-> "check",
                 count |-> IF prod.ret = "true" THEN sprod.count + 1
                           ELSE sprod.count]
    /\ UNCHANGED <<running, scons>>
    /\ UNCHANGED spscVars
    /\ UNCHANGED notStressSpsc

\* MmapWriter::create at the start of the consumer thread.
S_ConsCreate ==
    /\ scons.pc = "create"
    /\ \E now \in {0} : WriterCreateCall(StressFileCapacity, now)
    /\ scons' = [scons EXCEPT !.pc = "read"]
    /\ UNCHANGED <<running, sprod>>
    /\ UNCHANGED notStressMmap

\* while let Some(..) = cons.read_event(): the consumer enters read_event.
S_ConsRead ==
    /\ scons.pc = "read"
    /\ C_Enter
    /\ scons' = [scons EXCEPT !.pc = "reading"]
    /\ UNCHANGED <<running, sprod>>
    /\ UNCHANGED notStressSpsc

\* read_event has returned Some: mmap.write_event(&header, &payload) and
\* count += 1, then read_event again.
S_ConsSome ==
    /\ scons.pc = "reading"
    /\ cons.pc = "idle"
    /\ cons.ret.some
    /\ WriterWriteEventCall(cons.ret.header, cons.ret.payload)
    /\ scons' = [pc |-> "read", count |-> scons.count + 1]
    /\ UNCHANGED <<running, sprod>>
    /\ UNCHANGED notStressMmap

\* read_event has returned None: the inner loop ends.
S_ConsNone ==
    /\ scons.pc = "reading"
    /\ cons.pc = "idle"
    /\ ~cons.ret.some
    /\ scons' = [scons EXCEPT !.pc = "flag"]
    /\ UNCHANGED <<running, sprod>>
    /\ UNCHANGED spscVars
    /\ UNCHANGED notStressSpsc

\* !reader_running.load(Relaxed) && ..: with the flag seen true the right
\* operand is not evaluated and the loop goes on.
S_ConsCheck ==
    /\ scons.pc = "flag"
    /\ \E seen \in RunningSeen :
          scons' = [scons EXCEPT !.pc = IF seen THEN "read" ELSE "empty"]
    /\ UNCHANGED <<running, sprod>>
    /\ UNCHANGED spscVars
    /\ UNCHANGED notStressSpsc

\* The stores to head a Relaxed load by the consumer can return: none
\* older than the one it loaded last.
IsEmptyHeads == consSeen..Len(headHist)

\* cons.is_empty(): head.load(Relaxed) == tail.load(Relaxed); break when
\* they are equal.
S_ConsIsEmpty ==
    /\ scons.pc = "empty"
    /\ \E k \in IsEmptyHeads :
          /\ consSeen' = k
          /\ scons' = [scons EXCEPT
                          !.pc = IF headHist[k] = spsc.tail THEN "sync"
                                 ELSE "read"]
    /\ UNCHANGED <<spsc, prod, cons, headHist, tailHist, prodSeen,
                   accepted, returned, prodWrote, consRead>>
    /\ UNCHANGED <<running, sprod>>
    /\ UNCHANGED notStressSpsc

\* mmap.sync()? behind the loop.
S_ConsSync ==
    /\ scons.pc = "sync"
    /\ WriterSyncCall
    /\ scons' = [scons EXCEPT !.pc = "exit"]
    /\ UNCHANGED <<running, sprod>>
    /\ UNCHANGED notStressMmap

\* Ok(count): the thread ends and mmap is dropped.
S_ConsExit ==
    /\ scons.pc = "exit"
    /\ WriterDropCall
    /\ scons' = [scons EXCEPT !.pc = "done"]
    /\ UNCHANGED <<running, sprod>>
    /\ UNCHANGED notStressMmap

\* running.store(false, SeqCst), by main after its sleep or by the Ctrl+C
\* handler.
S_Shutdown ==
    /\ running
    /\ running' = FALSE
    /\ UNCHANGED <<sprod, scons>>
    /\ UNCHANGED <<ringVars, spscVars, mmapVars, dispVars, ends>>

(***************************************************************************)
(* Specifications.                                                         *)
(***************************************************************************)
\* Counter values shortly before the usize counters wrap to 0.
WrapBases == {Modulus - 70, Modulus - 20}

OtherInit == MmapInit /\ DispInit /\ StressInit /\ SplitInit

InitRing == RingInit /\ SpscInitAt(0) /\ OtherInit

NextRing ==
    \/ \E capacity \in 0..MaxCapacity : RingNew(capacity)
    \/ \E ts \in Timestamps, ty \in EventTypes, len \in RingPayloadLens,
          fill \in Fills :
           RingWriteEvent(EventHeaderNew(ts, ty, len), Payload(fill, len))
    \/ RingReadEvent

SpecRing == InitRing /\ [][NextRing]_vars

InitSpsc == RingInit /\ SpscInitAt(0) /\ OtherInit

NextSpsc ==
    \/ \E ts \in Timestamps, ty \in EventTypes, len \in PayloadLens,
          fill \in Fills :
           P_Call(EventHeaderNew(ts, ty, len), Payload(fill, len))
    \/ P_LoadTail
    \/ P_CopyHeader
    \/ P_CopyHeaderRest
    \/ P_CopyPayload
    \/ P_CopyPayloadRest
    \/ P_StoreHead
    \/ C_Call
    \/ C_LoadHead
    \/ C_ReadHeader
    \/ C_ReadHeaderRest
    \/ C_ReadPayload
    \/ C_ReadPayloadRest
    \/ C_StoreTail

SpecSpsc == InitSpsc /\ [][NextSpsc]_vars

InitSpscWrap ==
    /\ RingInit
    /\ \E base \in WrapBases : SpscInitAt(base)
    /\ OtherInit

SpecSpscWrap == InitSpscWrap /\ [][NextSpsc]_vars

\* Inputs of the storage.
FileCapacities == {0, 100, 4096, 4160}
Nows == {1700000000}
MmapPayloadLens == {8, 1952, 2048}
\* The timestamp of the n-th record written to a file, n = 0, 1, ...
MmapTimestamp(n) == 1000 * n

InitMmap ==
    /\ RingInit /\ SpscInitAt(0)
    /\ MmapInit /\ DispInit /\ StressInit /\ SplitInit

NextMmap ==
    \/ \E capacity \in FileCapacities, now \in Nows :
           WriterCreate(capacity, now)
    \/ WriterOpen
    \/ \E ty \in EventTypes, len \in MmapPayloadLens, fill \in Fills :
           WriterWriteEvent(EventHeaderNew(MmapTimestamp(Len(written)), ty, len),
                            Payload(fill, len))
    \/ WriterSync
    \/ WriterDrop
    \/ ReaderOpen
    \/ \E oob \in OobOutcomes : ReaderReplay(oob)
    \/ ReaderDrop

SpecMmap == InitMmap /\ [][NextMmap]_vars

\* Files that were not made by a MmapWriter, as a reader may be handed them.
\* The literal "not a valid log file" and other files too short for a header.
ShortFiles ==
    { FileOf(20, <<110, 111, 116, 32, 97, 32, 118, 97, 108, 105, 100, 32,
                   108, 111, 103, 32, 102, 105, 108, 101>>),
      FileOf(0, << >>),
      FileOf(63, SubSeq(FileHeaderBytes(FileHeaderNew(0)), 1, 63)) }

ForeignLens == {64, 128, 160}
ForeignMagics == {MAGIC, <<69, 86, 73, 108>>, <<0, 0, 0, 0>>}
ForeignVersions == {0, 1, 2, 257}
ForeignWriteOffsets == {0, 64, 70, 88, 112, 128, 168}

\* What follows the file header: two records as a writer stores them, a
\* record whose payload_len points behind the second record, and a record
\* whose payload_len points far behind the file.
ForeignAreas ==
    { <<[header |-> EventHeaderNew(0, 1, 8), payload |-> Payload(171, 8)],
        [header |-> EventHeaderNew(1000, 1, 8), payload |-> Payload(187, 8)]>>,
      <<[header |-> EventHeaderNew(0, 1, 8), payload |-> Payload(171, 8)],
        [header |-> EventHeaderNew(1000, 1, 100), payload |-> Payload(187, 8)]>>,
      <<[header |-> EventHeaderNew(0, 1, 1000), payload |-> Payload(171, 8)]>> }

Clip(bytes, len) == SubSeq(bytes, 1, Min(Len(bytes), len))

ForeignFile(len, magic, version, write_offset, area) ==
    FileOf(len,
           Clip(FileHeaderBytes([FileHeaderNew(0) EXCEPT
                                    !.magic = magic,
                                    !.version = version,
                                    !.event_count = 2,
                                    !.write_offset = write_offset])
                    \o RecordImages(area), len))

\* Files of at least 64 bytes with a wrong magic or a wrong version.
BadHeaderFiles ==
    { ForeignFile(len, magic, version, 64, << >>) :
          len \in {64, 128},
          magic \in ForeignMagics,
          version \in ForeignVersions } \
    { ForeignFile(len, MAGIC, VERSION, 64, << >>) : len \in {64, 128} }

\* Files with a valid magic and version, and any write_offset and records.
AcceptedFiles ==
    { ForeignFile(len, MAGIC, VERSION, write_offset, area) :
          len \in ForeignLens,
          write_offset \in ForeignWriteOffsets,
          area \in ForeignAreas }

ForeignFiles == ShortFiles \cup BadHeaderFiles \cup AcceptedFiles

InitForeign ==
    /\ RingInit /\ SpscInitAt(0)
    /\ \E f \in ForeignFiles : MmapInitWith(f)
    /\ DispInit /\ StressInit /\ SplitInit

NextForeign ==
    \/ ReaderOpen
    \/ \E oob \in OobOutcomes : ReaderReplay(oob)
    \/ ReaderIter
    \/ \E oob \in OobOutcomes : IterNext(oob)
    \/ IterDrop
    \/ ReaderDrop

SpecForeign == InitForeign /\ [][NextForeign]_vars

\* Progress on the SPSC ring.  The producer writes records of 24 and of 63
\* bytes, which fit a ring of 64 bytes (the second only an empty one), and
\* of 64 bytes, which do not; the timestamp of a record is the number of
\* records accepted before it.  A producer whose call for a record that
\* fits was refused calls again with the same record, as the loop of the
\* stress producer does; it may give up a record that does not fit.
LivePayloadLens == {8, 47, 48}

Fits(header) == TotalSize(header) <= spsc.capacity - 1

Retrying == prod.ret = "false" /\ Fits(prod.header)

P_Retry ==
    /\ Retrying
    /\ P_Call(prod.header, prod.payload)

P_WriteNew(header, payload) ==
    /\ ~Retrying
    /\ P_Call(header, payload)

\* The steps of the producer that are taken if they stay enabled: a call in
\* progress goes on and a refused record that fits is tried again.
ProducerRuns ==
    \/ P_Retry
    \/ P_LoadTail
    \/ P_CopyHeader
    \/ P_CopyHeaderRest
    \/ P_CopyPayload
    \/ P_CopyPayloadRest
    \/ P_StoreHead

\* The consumer keeps calling read_event.
ConsumerRuns ==
    \/ C_Call
    \/ C_LoadHead
    \/ C_ReadHeader
    \/ C_ReadHeaderRest
    \/ C_ReadPayload
    \/ C_ReadPayloadRest
    \/ C_StoreTail

\* An Acquire load that returns the latest store to the other side's index.
\* A store becomes visible to the other thread in finite time, so a thread
\* that loads again and again gets the latest store again and again.
P_LoadTailLatest == P_LoadTail /\ prodSeen' = Len(tailHist)

C_LoadHeadLatest == C_LoadHead /\ consSeen' = Len(headHist)

NextLive ==
    \/ \E ty \in EventTypes, len \in LivePayloadLens, fill \in Fills :
           P_WriteNew(EventHeaderNew(Len(accepted), ty, len), Payload(fill, len))
    \/ P_Retry
    \/ P_LoadTail
    \/ P_CopyHeader
    \/ P_CopyHeaderRest
    \/ P_CopyPayload
    \/ P_CopyPayloadRest
    \/ P_StoreHead
    \/ C_Call
    \/ C_LoadHead
    \/ C_ReadHeader
    \/ C_ReadHeaderRest
    \/ C_ReadPayload
    \/ C_ReadPayloadRest
    \/ C_StoreTail

SpecLive ==
    /\ InitSpsc
    /\ [][NextLive]_vars
    /\ WF_vars(ProducerRuns)
    /\ WF_vars(ConsumerRuns)
    /\ SF_vars(P_LoadTailLatest)
    /\ SF_vars(C_LoadHeadLatest)

\* Replay and iteration over the files of a writer: one capacity, records
\* of two sizes, and a reader that may be opened while the writer is live.
IterCapacities == {100}
IterPayloadLens == {8, 40}

NextIter ==
    \/ \E capacity \in IterCapacities, now \in Nows :
           WriterCreate(capacity, now)
    \/ WriterOpen
    \/ \E ty \in EventTypes, len \in IterPayloadLens, fill \in Fills :
           WriterWriteEvent(EventHeaderNew(MmapTimestamp(Len(written)), ty, len),
                            Payload(fill, len))
    \/ WriterDrop
    \/ ReaderOpen
    \/ \E oob \in OobOutcomes : ReaderReplay(oob)
    \/ ReaderIter
    \/ \E oob \in OobOutcomes : IterNext(oob)
    \/ IterDrop
    \/ ReaderDrop

SpecIter == InitMmap /\ [][NextIter]_vars

\* write_event taken one memory write at a time, with a reader that may
\* open the file, replay it and be dropped between any two of them.
StepCapacities == {100}
StepPayloadLens == {8, 2048}

NextWriteSteps ==
    \/ \E capacity \in StepCapacities, now \in Nows :
           WriterCreate(capacity, now)
    \/ \E ty \in EventTypes, len \in StepPayloadLens, fill \in Fills :
           W_Enter(EventHeaderNew(MmapTimestamp(Len(written)), ty, len),
                   Payload(fill, len))
    \/ W_StoreHeader
    \/ W_CopyPayload
    \/ W_AdvanceOffset
    \/ W_StoreEventCount
    \/ W_StoreWriteOffset
    \/ ReaderOpen
    \/ \E oob \in OobOutcomes : ReaderReplay(oob)
    \/ ReaderDrop

SpecWriteSteps == InitMmap /\ [][NextWriteSteps]_vars

\* Calls whose payload slice is shorter or longer than header.payload_len,
\* which neither write_event compares: RingBuffer::write_event on a ring of
\* one capacity with every pairing of these lengths, and
\* Producer::write_event with a header of payload_len 0 and a slice of 40
\* bytes.  The records of that producer are 16 bytes and the consumer does
\* not run, so neither its header nor its payload is ever split.  The
\* slices hold zeros, which keeps the payload_len of a header they overwrite
\* small.  A ring whose records were overwritten can return records without
\* end, tail stepping over head; read_event is followed for MaxWrites
\* records.
SliceCapacities == {64}
SlicePayloadLens == {0, 15, 40}
SliceLens == {15, 40}
ProdSliceLens == {40}
\* The timestamp of the n-th record written, n = 0, 1, ...
SliceTimestamp(n) == n

NextSlices ==
    \/ \E capacity \in SliceCapacities : RingNew(capacity)
    \/ \E ty \in EventTypes, len \in SlicePayloadLens, n \in SliceLens :
           RingWriteEvent(EventHeaderNew(SliceTimestamp(Len(rbAccepted)),
                                         ty, len),
                          Zeros(n))
    \/ Len(rbReturned) < MaxWrites /\ RingReadEvent
    \/ \E ty \in EventTypes, n \in ProdSliceLens :
           P_Call(EventHeaderNew(SliceTimestamp(Len(accepted)), ty, 0),
                  Zeros(n))
    \/ P_LoadTail
    \/ P_CopyHeader
    \/ P_CopyPayload
    \/ P_StoreHead

SpecSlices == InitRing /\ [][NextSlices]_vars

\* MmapWriter::write_event with payload slices shorter or longer than
\* header.payload_len, which it does not compare, on a mapping of one page.
FileSliceCapacities == {100}
FileSlicePayloadLens == {8, 2048}
FileSliceLens == {0, 8, 2048, 4096}

NextFileSlices ==
    \/ \E capacity \in FileSliceCapacities, now \in Nows :
           WriterCreate(capacity, now)
    \/ \E ty \in EventTypes, len \in FileSlicePayloadLens,
          n \in FileSliceLens, fill \in Fills :
           WriterWriteEvent(EventHeaderNew(MmapTimestamp(Len(written)), ty, len),
                            Payload(fill, n))
    \/ WriterSync
    \/ WriterDrop
    \/ ReaderOpen
    \/ \E oob \in OobOutcomes : ReaderReplay(oob)
    \/ ReaderDrop

SpecFileSlices == InitMmap /\ [][NextFileSlices]_vars

\* MmapWriter::open on files that were not left by a writer: valid magic and
\* version, and a persisted write_offset inside or outside [64, file length].
\* The payloads hold zeros: a record stored below offset 64 overwrites the
\* file header, and the fields read back from it stay small.
ForeignWriterPayloadLens == {0, 8}

InitForeignWriter ==
    /\ RingInit /\ SpscInitAt(0)
    /\ \E f \in AcceptedFiles : MmapInitWith(f)
    /\ DispInit /\ StressInit /\ SplitInit

NextForeignWriter ==
    \/ WriterOpen
    \/ \E ty \in EventTypes, len \in ForeignWriterPayloadLens :
           WriterWriteEvent(EventHeaderNew(MmapTimestamp(Len(written)), ty, len),
                            Zeros(len))
    \/ WriterSync
    \/ WriterDrop

SpecForeignWriter == InitForeignWriter /\ [][NextForeignWriter]_vars

\* The mappings of writers and readers that are created, opened and dropped
\* on a path that holds no file, a file that is no log, or a log.
MappingCapacities == {100}
MappingFiles ==
    BadHeaderFiles \cup AcceptedFiles \cup {NoFile, FileOf(0, << >>)}

InitMappings ==
    /\ RingInit /\ SpscInitAt(0)
    /\ \E f \in MappingFiles : MmapInitWith(f)
    /\ DispInit /\ StressInit /\ SplitInit

NextMappings ==
    \/ \E capacity \in MappingCapacities, now \in Nows :
           WriterCreate(capacity, now)
    \/ WriterOpen
    \/ WriterSync
    \/ WriterDrop
    \/ ReaderOpen
    \/ ReaderDrop

SpecMappings == InitMappings /\ [][NextMappings]_vars

\* Two Producers of one ring, made by two split calls, each writing records
\* of 16 or 47 bytes; the Consumers do not run, so no record is split.
SplitPayloadLens == {0, 31}

NextSplit ==
    \/ Split
    \/ P_Switch
    \/ \E ty \in EventTypes, len \in SplitPayloadLens, fill \in Fills :
           P_Call(EventHeaderNew(SliceTimestamp(Len(accepted)), ty, len),
                  Payload(fill, len))
    \/ P_LoadTail
    \/ P_CopyHeader
    \/ P_CopyPayload
    \/ P_StoreHead

SpecSplit == InitSpsc /\ [][NextSplit]_vars

\* Inputs of the dispatcher.
DispCapacities == {256}
\* The timestamp of the n-th record written to the ring, n = 0, 1, ...
DispTimestamp(n) == n
DispPayloadLens == {40}
BatchLimits == 0..(MaxWrites + 1)

InitDispatch ==
    /\ RingInit /\ SpscInitAt(0)
    /\ MmapInit /\ DispInit /\ StressInit /\ SplitInit

NextDispatch ==
    \/ \E capacity \in DispCapacities : RingNew(capacity)
    \/ \E ty \in EventTypes, len \in DispPayloadLens, fill \in Fills :
           RingWriteEvent(EventHeaderNew(DispTimestamp(Len(rbAccepted)), ty, len),
                          Payload(fill, len))
    \/ RingReadEvent
    \/ \E kind \in ConsumerKinds : AddConsumer(kind)
    \/ Drain
    \/ \E limit \in BatchLimits : DrainBatch(limit)

SpecDispatch == InitDispatch /\ [][NextDispatch]_vars

\* The stress pipeline, on the smallest ring that holds one of its records
\* and not two (the binary's ring is 64 MiB).  Every record is 80 bytes
\* and the capacity a multiple of 16, so that a header is never split at
\* the end of the buffer: the steps for the rest of a split header are
\* never enabled and are left out of NextStress.
StressRingCapacity == 2 * MinSpscCapacity

InitStress ==
    /\ RingInit
    /\ spsc = SpscNew(StressRingCapacity, 0)
    /\ prod = [header |-> NoHeader, head |-> 0, tail |-> 0,
               payload |-> << >>, pc |-> "idle", ret |-> "none"]
    /\ cons = [bytes |-> << >>, head |-> 0, tail |-> 0,
               payload |-> << >>, pc |-> "idle", ret |-> [op |-> "none"]]
    /\ headHist = <<0>> /\ tailHist = <<0>>
    /\ prodSeen = 1 /\ consSeen = 1
    /\ accepted = << >> /\ returned = << >>
    /\ prodWrote = {} /\ consRead = {}
    /\ MmapInit /\ DispInit /\ StressInit /\ SplitInit

NextStress ==
    \/ S_Shutdown
    \/ S_ProdCheck
    \/ P_LoadTail
    \/ P_CopyHeader
    \/ P_CopyPayload
    \/ P_CopyPayloadRest
    \/ P_StoreHead
    \/ S_ProdReturn
    \/ S_ConsCreate
    \/ S_ConsRead
    \/ C_LoadHead
    \/ C_ReadHeader
    \/ C_ReadPayload
    \/ C_ReadPayloadRest
    \/ C_StoreTail
    \/ S_ConsSome
    \/ S_ConsNone
    \/ S_ConsCheck
    \/ S_ConsIsEmpty
    \/ S_ConsSync
    \/ S_ConsExit

SpecStress == InitStress /\ [][NextStress]_vars

(***************************************************************************)
(* Properties of the SPSC ring.                                            *)
(***************************************************************************)
IsPrefix(a, b) == Len(a) <= Len(b) /\ a = SubSeq(b, 1, Len(a))

\* The masked buffer positions of the counter range [from, from + n).
Positions(from, n) ==
    {BitAnd(WrappingAdd(from, i), spsc.mask) : i \in 0..(n - 1)}

\* C1: with one producer and one consumer, under every interleaving of
\* their loads, copies and stores, the records returned by read_event are a
\* prefix of the records accepted by write_event, byte for byte; when the
\* producer is between calls and the ring is drained the two are equal.
C1_ReadsArePrefixOfWrites ==
    /\ IsPrefix(returned, accepted)
    /\ (prod.pc = "idle" /\ SpscIsEmpty(spsc)) => returned = accepted

\* Three records went through the ring, the last one read while the array
\* had wrapped.
C1_Witness ==
    /\ Len(returned) = MaxWrites
    /\ returned = accepted
    /\ SumSizes(accepted) > spsc.capacity

\* C2: in every reachable state head - tail, with wrapping subtraction,
\* lies in [0, capacity - 1], and head = tail exactly when every published
\* record has been read.
C2_HeadTailDistance ==
    /\ WrappingSub(spsc.head, spsc.tail) >= 0
    /\ WrappingSub(spsc.head, spsc.tail) <= spsc.capacity - 1
    /\ (spsc.head = spsc.tail) <=> (Len(returned) = Len(accepted))

\* The ring holds capacity - 1 bytes: head - tail is at its maximum.
C2_Witness ==
    /\ WrappingSub(spsc.head, spsc.tail) = spsc.capacity - 1
    /\ Len(returned) >= 1

\* C3: no data race on the byte array.  The consumer copies only positions
\* of records published by a store to head that it has loaded, the producer
\* writes only positions outside every published and not yet released
\* record, the two calls in progress never touch a common position, and the
\* record the consumer is about to return is the one that was written.
C3_NoDataRace ==
    /\ consRead \subseteq
           Positions(cons.tail, WrappingSub(cons.head, cons.tail))
    /\ prodWrote \cap
           Positions(spsc.tail, WrappingSub(spsc.head, spsc.tail)) = {}
    /\ prodWrote \cap consRead = {}
    /\ cons.pc = "store" =>
           /\ Len(returned) < Len(accepted)
           /\ [header |-> ConsHeader, payload |-> cons.payload]
                  = accepted[Len(returned) + 1]

\* Both sides are copying at the same time, the producer into the space
\* the consumer freed earlier.
C3_Witness ==
    /\ prod.pc = "store"
    /\ cons.pc = "store"
    /\ prodWrote # {}
    /\ consRead # {}
    /\ Len(returned) >= 1

\* C4: write_event returns false when total_size exceeds
\* capacity - (head - tail) - 1 for the head and tail it loaded, and then the
\* step changes neither head, tail nor any byte; the call is over with that
\* step (no wait, no retry), otherwise it goes on to copy.
C4_FullWriteReturnsFalse ==
    [][(prod.pc = "load_tail" /\ prod'.pc # "load_tail") =>
          IF TotalSize(prod.header)
                 > spsc.capacity - ((prod'.head - prod'.tail) % Modulus) - 1
          THEN /\ prod'.pc = "idle"
               /\ prod'.ret = "false"
               /\ spsc' = spsc
               /\ headHist' = headHist
               /\ tailHist' = tailHist
               /\ accepted' = accepted
          ELSE prod'.pc = "hdr"]_vars

\* A write was refused while the ring held a record.
C4_Witness ==
    /\ prod.pc = "idle"
    /\ prod.ret = "false"
    /\ Len(accepted) > Len(returned)

(***************************************************************************)
(* Properties of the single-threaded RingBuffer.                           *)
(***************************************************************************)
\* C5: the k-th successful read_event returns the record of the k-th
\* successful write_event, in every sequence of calls, failed writes and
\* empty reads included.
C5_RingFifo ==
    /\ IsPrefix(rbReturned, rbAccepted)
    /\ (rbRet.op = "read" /\ rbRet.some) =>
           /\ Len(rbReturned) >= 1
           /\ [header |-> rbRet.header, payload |-> rbRet.payload]
                  = rbAccepted[Len(rbReturned)]

\* The third read returned the third record.
C5_Witness ==
    /\ rbRet.op = "read"
    /\ rbRet.some
    /\ Len(rbReturned) = MaxWrites

\* The bytes the ring holds for the counter range [from, from + n).
RingImage(from, n) ==
    [i \in 1..n |-> rb.buf[(from + i - 1) % rb.capacity]]

\* C6: at every head position (fits, fills exactly to the end, payload
\* split, header split) and for every payload_len, 0 included, a record
\* written with payload.len() = payload_len is stored as its 16-byte header
\* image followed by its payload, modulo the capacity, and is read back
\* with the same header image and the same payload.
C6_RoundTrip ==
    /\ rbLive =>
          \A k \in (Len(rbReturned) + 1)..Len(rbAccepted) :
              RingImage(SumSizes(SubSeq(rbAccepted, 1, k - 1)),
                        TotalSize(rbAccepted[k].header))
                  = HeaderBytes(rbAccepted[k].header) \o rbAccepted[k].payload
    /\ (rbRet.op = "read" /\ rbRet.some /\ Len(rbReturned) <= Len(rbAccepted))
          => /\ HeaderBytes(rbRet.header)
                    = HeaderBytes(rbAccepted[Len(rbReturned)].header)
             /\ rbRet.payload = rbAccepted[Len(rbReturned)].payload

\* Where the record last returned started, and its size.
LastReadStart ==
    SumSizes(SubSeq(rbAccepted, 1, Len(rbReturned) - 1)) % rb.capacity

\* A record whose header was split across the end of the array, with a
\* payload, was read back.
C6_Witness ==
    /\ rbRet.op = "read"
    /\ rbRet.some
    /\ rb.capacity - LastReadStart < SIZE
    /\ rbRet.header.payload_len > 0
    /\ rbRet.payload = rbAccepted[Len(rbReturned)].payload

\* C7: after construction and after any sequence of calls,
\* used + available + 1 = capacity, 0 <= used <= capacity - 1, and is_empty
\* holds exactly when used = 0.
C7_UsedAvailable ==
    rbLive =>
        /\ Used(rb) + Available(rb) + 1 = rb.capacity
        /\ Used(rb) >= 0
        /\ Used(rb) <= rb.capacity - 1
        /\ IsEmpty(rb) <=> (Used(rb) = 0)

\* The ring is as full as it gets, head behind tail in the array, and a
\* write has just been refused.
C7_Witness ==
    /\ rbLive
    /\ Used(rb) = rb.capacity - 1
    /\ rb.head < rb.tail
    /\ rbRet.op = "write"
    /\ ~rbRet.ok

\* C8: write_event with total_size > available returns
\* NotEnoughSpace{required: total_size, available: capacity - used - 1} and
\* leaves head, tail and every byte as they were; a write that fits is
\* never refused.
C8_NotEnoughSpace ==
    [][/\ (rbRet'.op = "write" /\ ~rbRet'.ok) =>
            /\ rb' = rb
            /\ rbAccepted' = rbAccepted
            /\ rbReturned' = rbReturned
            /\ rbRet'.err = "NotEnoughSpace"
            /\ rbRet'.required > rbRet'.available
            /\ rbRet'.available
                   = rb.capacity
                     - (SumSizes(rbAccepted) - SumSizes(rbReturned)) - 1
       /\ (rbRet'.op = "write" /\ rbRet'.ok /\ rbAccepted' # rbAccepted) =>
            TotalSize(rbAccepted'[Len(rbAccepted')].header)
                <= rb.capacity
                   - (SumSizes(rbAccepted) - SumSizes(rbReturned)) - 1
      ]_vars

\* Capacity 128 holding one 80-byte record: the second 80-byte write is
\* refused with required 80, available 47.
C8_Witness ==
    /\ rb.capacity = 128
    /\ Len(rbAccepted) = 1
    /\ Len(rbReturned) = 0
    /\ TotalSize(rbAccepted[1].header) = 80
    /\ rbRet = [ok |-> FALSE, err |-> "NotEnoughSpace", op |-> "write",
                available |-> 47, required |-> 80]

BytesWritten == SumSizes(accepted)
BytesRead == SumSizes(returned)
Base == headHist[1]

\* C10: when head and tail wrap past the maximum to 0, head - tail (wrapping)
\* stays in [0, capacity - 1] and equals the number of unread bytes, the
\* masked positions are those of the unwrapped counters, the records
\* returned are the records written, and every write is accepted or refused
\* as on a ring whose counters started at 0.
C10_StateInv ==
    /\ ((spsc.head - spsc.tail) % Modulus) \in 0..(spsc.capacity - 1)
    /\ ((spsc.head - spsc.tail) % Modulus) = BytesWritten - BytesRead
    /\ BitAnd(spsc.head, spsc.mask) = (Base + BytesWritten) % spsc.capacity
    /\ BitAnd(spsc.tail, spsc.mask) = (Base + BytesRead) % spsc.capacity
    /\ IsPrefix(returned, accepted)

C10_Decision ==
    (prod.pc = "load_tail" /\ prod'.pc # "load_tail") =>
        LET seenRead == SumSizes(SubSeq(returned, 1, prodSeen' - 1))
            fits == TotalSize(prod.header)
                        <= spsc.capacity - (BytesWritten - seenRead) - 1
        IN  IF fits THEN prod'.pc = "hdr"
            ELSE prod'.pc = "idle" /\ prod'.ret = "false"

C10_CounterOverflow == [](C10_StateInv) /\ [][C10_Decision]_vars

\* head has wrapped to a small value, tail has not yet, and the consumer is
\* about to return a record.
C10_Witness ==
    /\ spsc.head < spsc.tail
    /\ Len(accepted) = MaxWrites
    /\ Len(returned) >= 1
    /\ cons.pc = "store"

(***************************************************************************)
(* Properties of the storage.                                              *)
(***************************************************************************)
\* The FileHeader held in the first 64 bytes of the file.
InFileHeader == FileHeaderFromBytes(FileBytes(file, 0, FileHeaderSIZE))

\* The number of whole records stored in the bytes [from, to) of f, found
\* by walking the record headers.
RECURSIVE WholeRecords(_, _, _)
WholeRecords(f, from, to) ==
    IF from + SIZE > to THEN 0
    ELSE LET header == HeaderFromBytes(FileBytes(f, from, SIZE))
         IN  IF from + TotalSize(header) > to THEN 0
             ELSE 1 + WholeRecords(f, from + TotalSize(header), to)

\* C11: for a log file made by MmapWriter::create and changed only by
\* write_event (accepted or refused), sync, drop and MmapWriter::open, after
\* every completed operation the header in the file has
\* 64 <= write_offset <= mapping length, and event_count is the number of
\* whole records stored in [64, write_offset), the records written so far.
C11_FileHeaderInvariant ==
    file.exists =>
        /\ FileHeaderSIZE <= InFileHeader.write_offset
        /\ InFileHeader.write_offset <= file.len
        /\ InFileHeader.event_count =
               WholeRecords(file, FileHeaderSIZE, InFileHeader.write_offset)
        /\ InFileHeader.event_count = Len(written)

\* A write has just been refused by a flushed file that two
\* records fill to its last byte.
C11_Witness ==
    /\ writer.live
    /\ wrRet.op = "write" /\ ~wrRet.ok
    /\ InFileHeader.event_count = 2
    /\ InFileHeader.write_offset = file.len
    /\ WholeRecords(file, FileHeaderSIZE, file.len) = 2
    /\ ~dirty

\* A step of MmapWriter::write_event.
WriteStep ==
    /\ wrRet'.op = "write"
    /\ wrRet' # wrRet \/ file' # file \/ writer' # writer

\* C12: MmapWriter::write_event returns false exactly when
\* header.total_size() > mapping length - write_offset; a refused call leaves
\* the writer's write_offset, the header fields in the file, the records
\* stored and the file length as they were, and no call grows the file.
C12_WriteFull ==
    [][WriteStep =>
          LET total_size == TotalSize(wrRet'.header)
          IN  /\ (~wrRet'.ok) <=>
                     (total_size > writer.mmap_len - writer.write_offset)
              /\ file'.len = file.len
              /\ writer'.mmap_len = writer.mmap_len
              /\ ~wrRet'.ok => /\ writer' = writer
                               /\ file' = file
                               /\ written' = written]_vars

\* Capacity 4096: a record of 2064 bytes was accepted and left the offset at
\* 2128, and the same record was refused.
C12_Witness ==
    /\ file.len = 4096
    /\ writer.live /\ writer.write_offset = 2128
    /\ wrRet.op = "write" /\ ~wrRet.ok /\ TotalSize(wrRet.header) = 2064
    /\ Len(written) = 1 /\ TotalSize(written[1].header) = 2064
    /\ InFileHeader.event_count = 1 /\ InFileHeader.write_offset = 2128

\* A step of MmapReader::open.
ReaderOpenStep ==
    /\ rdRet'.op = "open"
    /\ rdRet' # rdRet \/ reader' # reader

\* The events of a replay are the first n records written, byte for byte.
SameRecords(events, n) ==
    /\ Len(events) = n
    /\ n <= Len(written)
    /\ \A i \in 1..n :
          /\ events[i].header = written[i].header
          /\ HeaderBytes(events[i].header) = HeaderBytes(written[i].header)
          /\ events[i].payload = written[i].payload

\* C13: after MmapWriter::create, N accepted write_event calls, sync and
\* drop, a MmapReader opened on the file reports event_count() = N, and its
\* replay returns N and hands the callback the N records in the order they
\* were written, with the same header and payload bytes.
C13_OpenAfterDrop ==
    ReaderOpenStep /\ file.exists /\ ~writer.live /\ ~dirty =>
        /\ rdRet'.ok
        /\ EventCount(reader') = Len(written)

C13_Replayed ==
    reader.live /\ rdRet.op = "replay" =>
        /\ ~rdRet.fault
        /\ rdRet.count = EventCount(reader)
        /\ SameRecords(rdRet.events, EventCount(reader))

C13_ReadBack == [](C13_Replayed) /\ [][C13_OpenAfterDrop]_vars

\* Two records of different sizes were written, the writer was dropped, and
\* a reader opened afterwards has replayed both.
C13_Witness ==
    /\ ~writer.live /\ ~dirty
    /\ Len(written) = 2
    /\ written[1].header.payload_len = 2048
    /\ written[2].header.payload_len = 8
    /\ reader.live /\ EventCount(reader) = 2
    /\ rdRet.op = "replay" /\ rdRet.count = 2
    /\ rdRet.events[2].payload = written[2].payload

\* A step of MmapWriter::open.
WriterOpenStep ==
    /\ wrRet'.op = "open"
    /\ wrRet' # wrRet \/ writer' # writer

\* C14: MmapWriter::open resumes appending at the persisted write_offset and
\* overwrites no earlier record: after create, M writes, sync, drop, open as
\* a writer, K more writes, sync, drop, a reader reports event_count = M + K
\* and replays the M records followed by the K records, in order.
C14_OpenResumes ==
    WriterOpenStep /\ wrRet'.ok =>
        /\ writer'.write_offset = InFileHeader.write_offset
        /\ writer'.write_offset = FileHeaderSIZE + SumSizes(written)
        /\ file' = file

C14_Appended ==
    /\ file.exists =>
          FileBytes(file, FileHeaderSIZE, SumSizes(written))
              = RecordImages(written)
    /\ writer.live =>
          /\ writer.resumed <= Len(written)
          /\ writer.write_offset = FileHeaderSIZE + SumSizes(written)
    /\ reader.live /\ ~writer.live /\ rdRet.op = "replay"
           /\ EventCount(reader) = Len(written) =>
          \A i \in 1..Len(written) :
              /\ rdRet.events[i].offset
                     = FileHeaderSIZE + SumSizes(SubSeq(written, 1, i - 1))
              /\ HeaderBytes(rdRet.events[i].header) \o rdRet.events[i].payload
                     = RecordImages(<<written[i]>>)

C14_Reopen == [](C14_Appended) /\ [][C14_OpenResumes]_vars

\* A writer made by open on a file of one record wrote a second record and
\* was dropped; a reader opened afterwards has replayed the two.
C14_Witness ==
    /\ ~writer.live /\ ~dirty
    /\ wrRet.op = "drop"
    /\ Len(written) = 2
    /\ written[1].resumed = 0 /\ written[2].resumed = 1
    /\ reader.live /\ EventCount(reader) = 2
    /\ rdRet.op = "replay" /\ rdRet.count = 2

(***************************************************************************)
(* Properties of the reader on files of any content.                       *)
(***************************************************************************)
\* The file is one MmapReader::open has to refuse: shorter than a file
\* header, or starting with another magic than "EVIL" or another version
\* than 1 (read from the bytes of the file).
RefusedFile ==
    \/ file.len < 64
    \/ SubSeq(file.data, 1, 4) # <<69, 86, 73, 76>>
    \/ SubSeq(file.data, 5, 8) # <<1, 0, 0, 0>>

\* C15: MmapReader::open returns an InvalidData error, and no reader and no
\* record come out of it, for every file shorter than 64 bytes and for
\* every file of at least 64 bytes whose magic is not "EVIL" or whose
\* version is not 1.
C15_OpenRefuses ==
    file.exists /\ RefusedFile =>
        /\ ~reader.live
        /\ ~iter.live
        /\ yielded = << >>
        /\ rdRet.op \in {"none", "open"}
        /\ rdRet.op = "open" => ~rdRet.ok /\ rdRet.err = "InvalidData"

\* open has refused the 20-byte file "not a valid log file".
C15_Witness ==
    /\ file.len = 20 /\ file.data[1] = 110
    /\ rdRet.op = "open" /\ ~rdRet.ok /\ rdRet.err = "InvalidData"
    /\ ~reader.live

\* The events the reader has visited: those of the last replay, or those
\* the iterator has returned.
Visited == IF rdRet.op = "replay" THEN rdRet.events ELSE yielded

\* The last reader call ended in the fault of a read outside the mapping.
Faulted == rdRet.op \in {"replay", "next"} /\ rdRet.fault

\* C16: for every file MmapReader::open accepts, whatever its write_offset
\* field and the payload_len fields of its records, replay and iter read no
\* byte at or behind the mapping length and consult no byte outside
\* [64, write_offset): the header and the payload of every event they visit
\* lie inside both.
C16_ReadsInsideRecordArea ==
    reader.live =>
        /\ ~Faulted
        /\ \A i \in 1..Len(Visited) :
              LET event == Visited[i]
                  last == event.offset + TotalSize(event.header)
              IN  /\ FileHeaderSIZE <= event.offset
                  /\ event.offset + SIZE <= reader.mmap_len
                  /\ event.offset + SIZE <= reader.file_header.write_offset
                  /\ last <= reader.mmap_len
                  /\ last <= reader.file_header.write_offset

\* The number of whole records of the file in [64, write_offset) as far as
\* the mapping holds them.
WholeInArea ==
    WholeRecords(file, FileHeaderSIZE,
                 Min(reader.file_header.write_offset, reader.mmap_len))

\* C17: when replay or iter reaches a record whose header or payload
\* (offset + 16 + payload_len) would pass write_offset, the iteration stops
\* there: that record is not handed to the callback or returned by next, and
\* the records before it are exactly the ones handed out.
C17_StopsAtMalformed ==
    reader.live =>
        /\ \A i \in 1..Len(Visited) :
              Visited[i].offset + TotalSize(Visited[i].header)
                  <= reader.file_header.write_offset
        /\ rdRet.op = "replay" => rdRet.count = WholeInArea
        /\ rdRet.op = "next" /\ ~rdRet.some => Len(yielded) = WholeInArea

(***************************************************************************)
(* Properties of the dispatcher.                                           *)
(***************************************************************************)
\* The records the ring holds: accepted and not yet returned.
Pending == SubSeq(rbAccepted, Len(rbReturned) + 1, Len(rbAccepted))

\* A step of EventDispatcher::drain, and one of drain_batch.
DrainStep == dispRet'.turn # dispRet.turn /\ dispRet'.op = "drain"

BatchStep == dispRet'.turn # dispRet.turn /\ dispRet'.op = "drain_batch"

\* The records of the consume calls consumer k received, in call order.
RECURSIVE OfferedTo(_, _)
OfferedTo(calls, k) ==
    IF calls = << >> THEN << >>
    ELSE (IF Head(calls).consumer = k THEN <<Head(calls).event>> ELSE << >>)
             \o OfferedTo(Tail(calls), k)

\* The number of pairs (record i of n, consumer k) whose consume call
\* answers ok.
Answers(n, ok) ==
    LET Row(i) == {k \in 1..Len(consumers) : Answer(consumers[k], i) = ok}
        Size(S) == IF S = {} THEN 0
                   ELSE IF 1 \in S /\ 2 \in S /\ 3 \in S THEN 3
                   ELSE IF (1 \in S /\ 2 \in S) \/ (1 \in S /\ 3 \in S)
                           \/ (2 \in S /\ 3 \in S) THEN 2
                   ELSE 1
        Sum[i \in 0..n] == IF i = 0 THEN 0 ELSE Sum[i - 1] + Size(Row(i))
    IN  Sum[n]

\* C18: EventDispatcher::drain on a RingBuffer holding n records, with c
\* consumers registered, reads exactly the n records and leaves the ring
\* empty, offers every record to every consumer in FIFO order whether or not
\* other consumers failed, and returns events_read = n and
\* events_delivered + events_failed = n * c, events_failed being the number
\* of consume calls that returned false.
C18_DrainStep ==
    DrainStep =>
        LET n == Len(Pending)
            c == Len(consumers)
            stats == dispRet'.stats
        IN  /\ stats.events_read = n
            /\ rbReturned' = rbReturned \o Pending
            /\ IsEmpty(rb')
            /\ \A k \in 1..c : OfferedTo(dispRet'.calls, k) = Pending
            /\ stats.events_delivered + stats.events_failed = n * c
            /\ stats.events_failed = Answers(n, FALSE)
            /\ stats.events_delivered = Answers(n, TRUE)

C18_Drain == [][C18_DrainStep]_vars

\* A drain has read three records with a failing consumer registered in
\* front of a counting one: three calls delivered, three failed.
C18_Witness ==
    /\ dispRet.op = "drain"
    /\ consumers = <<"failing", "counting">>
    /\ dispRet.stats.events_read = 3
    /\ dispRet.stats.events_delivered = 3
    /\ dispRet.stats.events_failed = 3
    /\ OfferedTo(dispRet.calls, 2) = rbAccepted
    /\ IsEmpty(rb)

\* C19: EventDispatcher::drain_batch(ring, limit) on a ring holding n
\* records reads exactly min(limit, n) records, the oldest ones in FIFO
\* order, and leaves the other n - min(limit, n) records in the ring as they
\* were, readable later in order.
C19_BatchStep ==
    BatchStep =>
        LET n == Len(Pending)
            m == Min(dispRet'.limit, n)
        IN  /\ dispRet'.stats.events_read = m
            /\ rbReturned' = rbReturned \o SubSeq(Pending, 1, m)
            /\ \A k \in 1..Len(consumers) :
                   OfferedTo(dispRet'.calls, k) = SubSeq(Pending, 1, m)
            /\ rb'.buf = rb.buf /\ rb'.head = rb.head
            /\ Used(rb') = SumSizes(SubSeq(Pending, m + 1, n))
            /\ DrainRead(rb', NoLimit).events = SubSeq(Pending, m + 1, n)

C19_DrainBatch == [][C19_BatchStep]_vars

\* drain_batch with limit 2 has read two of three records, and a later
\* read_event has returned the third.
C19_Witness ==
    /\ dispRet.op = "drain_batch" /\ dispRet.limit = 2
    /\ dispRet.stats.events_read = 2
    /\ Len(consumers) = 1
    /\ OfferedTo(dispRet.calls, 1) = SubSeq(rbAccepted, 1, 2)
    /\ Len(rbAccepted) = 3
    /\ rbReturned = rbAccepted
    /\ rbRet.op = "read" /\ rbRet.some /\ rbRet.header = rbAccepted[3].header

(***************************************************************************)
(* Properties of the stress pipeline.                                      *)
(***************************************************************************)
\* Both threads of the stress pipeline have terminated.
BothDone == sprod.pc = "done" /\ scons.pc = "done"

\* C20: a consumer loop that exits only after it has observed both the
\* shutdown flag set and the ring empty drops no record: in the stress
\* pipeline, once both threads have terminated, every record the producer's
\* write_event accepted has been returned by the consumer's read_event: the
\* written count equals the read count and head = tail.
C20_NoRecordDropped ==
    BothDone =>
        /\ returned = accepted
        /\ sprod.count = scons.count
        /\ spsc.head = spsc.tail

(***************************************************************************)
(* Frame properties of the SPSC ring.                                      *)
(***************************************************************************)
\* A step of the call the producer, or the consumer, is in.
ProdStep == prod' # prod

ConsStep == cons' # cons

\* C21: in the SPSC ring head is modified only by Producer::write_event and
\* tail only by Consumer::read_event; head advances by the total_size of the
\* accepted record and tail by the total_size of the returned record (as
\* usize counters); a write that returns false and a read that returns None
\* change neither, and no step of a read changes head or a buffer byte.
C21_Step ==
    /\ spsc'.head # spsc.head =>
           /\ ProdStep /\ ~ConsStep
           /\ prod'.pc = "idle" /\ prod'.ret = "true"
           /\ accepted' = Append(accepted, [header |-> prod.header,
                                            payload |-> prod.payload])
           /\ spsc'.head = (spsc.head + SIZE + prod.header.payload_len) % Modulus
    /\ spsc'.tail # spsc.tail =>
           /\ ConsStep /\ ~ProdStep
           /\ cons'.pc = "idle" /\ cons'.ret.some
           /\ returned' = Append(returned, [header |-> cons'.ret.header,
                                            payload |-> cons'.ret.payload])
           /\ spsc'.tail =
                  (spsc.tail + SIZE + cons'.ret.header.payload_len) % Modulus
    /\ (ProdStep /\ prod'.pc = "idle") =>
           IF prod'.ret = "true"
           THEN spsc'.head # spsc.head /\ spsc'.tail = spsc.tail
           ELSE spsc' = spsc /\ accepted' = accepted
    /\ (ConsStep /\ cons'.pc = "idle") =>
           IF cons'.ret.some
           THEN spsc'.tail # spsc.tail
           ELSE spsc' = spsc /\ returned' = returned
    /\ ConsStep => spsc'.head = spsc.head /\ spsc'.buf = spsc.buf

C21_HeadTailFrame == [][C21_Step]_vars

\* Two records were accepted and one returned, the last write was refused
\* and the last read found the ring empty of published records; head has
\* wrapped to 0 and beyond while tail has not.
C21_Witness ==
    /\ Len(accepted) = 2 /\ Len(returned) = 1
    /\ prod.pc = "idle" /\ prod.ret = "false"
    /\ cons.pc = "idle" /\ ~cons.ret.some
    /\ spsc.head < spsc.tail

(***************************************************************************)
(* Frame properties of the single-threaded ring.                           *)
(***************************************************************************)
\* C22: RingBuffer::read_event returns None exactly when head = tail and
\* then changes nothing; otherwise it returns the oldest unread record and
\* sets tail to (tail + 16 + payload_len) mod capacity, leaves head and
\* every buffer byte unchanged, and used() decreases by the record's
\* total_size.
C22_ReadStep ==
    rbRet'.op = "read" =>
        IF rb.head = rb.tail
        THEN /\ ~rbRet'.some
             /\ rb' = rb
             /\ rbReturned' = rbReturned
        ELSE /\ rbRet'.some
             /\ Len(rbReturned) < Len(rbAccepted)
             /\ rbRet'.header = rbAccepted[Len(rbReturned) + 1].header
             /\ rbRet'.payload = rbAccepted[Len(rbReturned) + 1].payload
             /\ rbReturned' = Append(rbReturned, rbAccepted[Len(rbReturned) + 1])
             /\ rb'.tail = (rb.tail + 16 + rbRet'.header.payload_len)
                               % rb.capacity
             /\ rb'.head = rb.head
             /\ rb'.buf = rb.buf
             /\ rb'.capacity = rb.capacity
             /\ Used(rb') = Used(rb) - (16 + rbRet'.header.payload_len)

C22_ReadEvent == [][C22_ReadStep]_vars

\* The second read has returned a record that ended behind the end of the
\* buffer, so that tail wrapped, and a third record is still unread.
C22_Witness ==
    /\ rbRet.op = "read" /\ rbRet.some
    /\ Len(rbReturned) = 2
    /\ rb.tail < 16 + rbRet.header.payload_len
    /\ rb.tail > 0
    /\ rb.head # rb.tail

(***************************************************************************)
(* Frame properties of the storage.                                        *)
(***************************************************************************)
\* The header stored in the first 64 bytes of a file.
HeaderOf(f) == FileHeaderFromBytes(FileBytes(f, 0, FileHeaderSIZE))

\* C23: every successful MmapWriter::write_event stores the 16 header bytes
\* at the old write_offset and the payload right behind them, advances
\* write_offset by total_size, adds one to the event_count in the file, sets
\* the write_offset field in the file to the writer's new write_offset, and
\* leaves magic, version, created_at and the bytes of the records written
\* before unchanged.
C23_AcceptedStep ==
    (WriteStep /\ wrRet'.ok) =>
        LET at == writer.write_offset
            header == wrRet'.header
            payload == written'[Len(written')].payload
            before == HeaderOf(file)
            after == HeaderOf(file')
        IN  /\ Len(written') = Len(written) + 1
            /\ written'[Len(written')].header = header
            /\ FileBytes(file', at, SIZE)
                   = header.timestamp \o <<header.event_type>>
                         \o <<header.flags>> \o ToLE(header.payload_len, 2)
                         \o header.reserved
            /\ FileBytes(file', at + SIZE, header.payload_len) = payload
            /\ writer'.write_offset = at + 16 + header.payload_len
            /\ after.event_count = before.event_count + 1
            /\ after.write_offset = writer'.write_offset
            /\ after.magic = before.magic
            /\ after.version = before.version
            /\ after.created_at = before.created_at
            /\ after.reserved = before.reserved
            /\ FileBytes(file', FileHeaderSIZE, at - FileHeaderSIZE)
                   = FileBytes(file, FileHeaderSIZE, at - FileHeaderSIZE)
            /\ FileBytes(file', writer'.write_offset,
                         file.len - writer'.write_offset)
                   = FileBytes(file, writer'.write_offset,
                               file.len - writer'.write_offset)

C23_WriteEventFrame == [][C23_AcceptedStep]_vars

\* A writer made by open has appended a second record behind the first.
C23_Witness ==
    /\ writer.live /\ writer.resumed = 1
    /\ wrRet.op = "write" /\ wrRet.ok
    /\ Len(written) = 2
    /\ InFileHeader.event_count = 2
    /\ InFileHeader.write_offset = writer.write_offset
    /\ writer.write_offset = FileHeaderSIZE + TotalSize(written[1].header)
                                 + TotalSize(written[2].header)

\* A step of MmapWriter::create.
CreateStep ==
    /\ wrRet'.op = "create"
    /\ wrRet' # wrRet \/ file' # file \/ writer' # writer

\* C24: MmapWriter::create(path, capacity) yields, for every requested
\* capacity and whatever the file held before, a file and a mapping of
\* max(capacity, 4096) bytes whose header has magic "EVIL", version 1,
\* event_count 0 and write_offset 64, and a writer whose write_offset is 64.
C24_CreateStep ==
    CreateStep =>
        LET capacity == wrRet'.capacity
            length == IF capacity > 4096 THEN capacity ELSE 4096
            header == HeaderOf(file')
        IN  /\ wrRet'.ok
            /\ file'.exists /\ file'.len = length
            /\ writer'.live /\ writer'.mmap_len = length
            /\ header.magic = <<69, 86, 73, 76>>
            /\ header.version = 1
            /\ header.event_count = 0
            /\ header.write_offset = 64
            /\ writer'.write_offset = 64
            /\ FileBytes(file', 64, length - 64) = Zeros(length - 64)

C24_Create == [][C24_CreateStep]_vars

\* create with capacity 100 has replaced a file that held records behind
\* its header.
C24_Witness ==
    /\ wrRet.op = "create" /\ wrRet.capacity = 100
    /\ wrRet.before > FileHeaderSIZE + 2 * SIZE
    /\ file.len = 4096
    /\ writer.live /\ writer.write_offset = 64
    /\ InFileHeader.event_count = 0

(***************************************************************************)
(* Replay and iteration.                                                   *)
(***************************************************************************)
\* The headers and payloads of the events, without their offsets.
Records(events) ==
    [i \in 1..Len(events) |->
        [header |-> events[i].header, payload |-> events[i].payload]]

\* The first n records the writers of the file were handed.
WrittenRecords(n) ==
    [i \in 1..n |-> [header |-> written[i].header,
                     payload |-> written[i].payload]]

\* The iterator has returned None.
IterFinished == iter.live /\ rdRet.op = "next" /\ ~rdRet.some

\* What replay passes to its callback in this state, reading no byte
\* outside the mapping.
ReplayedNow ==
    ReplayFrom(file, reader.mmap_len, FileHeaderSIZE,
               reader.file_header.write_offset, -1, << >>)

\* In every state: replay returns the number of records it visited, which is
\* event_count(), and visits the records written; the iterator has yielded
\* the first records replay visits, all of them once it has returned None,
\* and it returns None only with its offset at write_offset.
C25_State ==
    /\ rdRet.op = "replay" =>
           /\ ~rdRet.fault
           /\ rdRet.count = Len(rdRet.events)
           /\ rdRet.count = reader.file_header.event_count
           /\ rdRet.count <= Len(written)
           /\ Records(rdRet.events) = WrittenRecords(rdRet.count)
    /\ iter.live =>
           /\ ~ReplayedNow.fault
           /\ Len(yielded) <= Len(ReplayedNow.events)
           /\ yielded = SubSeq(ReplayedNow.events, 1, Len(yielded))
           /\ iter.offset <= reader.file_header.write_offset
    /\ rdRet.op = "next" => ~rdRet.fault
    /\ IterFinished =>
           /\ yielded = ReplayedNow.events
           /\ Len(yielded) = reader.file_header.event_count
           /\ iter.offset = reader.file_header.write_offset

\* A call of next on an iterator whose offset has reached write_offset
\* returns None and leaves the iterator there.
C25_NextStep ==
    (iter.live /\ iter.offset >= reader.file_header.write_offset
        /\ rdRet'.op = "next" /\ (rdRet' # rdRet \/ iter' # iter)) =>
        /\ ~rdRet'.some
        /\ iter' = iter
        /\ yielded' = yielded

\* C25: for a file written by a conforming writer, MmapReader::iter yields
\* the same records in the same order as replay passes to its callback,
\* replay returns the number of records it visited, which is event_count(),
\* and the iterator returns None for ever once its offset has reached
\* write_offset.
C25_IterLikeReplay == [](C25_State) /\ [][C25_NextStep]_vars

\* The iterator has yielded two records of different sizes and returned
\* None, while the writer has appended nothing since the reader was opened.
C25_Witness ==
    /\ IterFinished
    /\ Len(yielded) = 2
    /\ yielded[1].header.payload_len # yielded[2].header.payload_len
    /\ Records(yielded) = WrittenRecords(2)
    /\ Len(written) = 2

(***************************************************************************)
(* The flush hook.                                                         *)
(***************************************************************************)
\* C26: every drain operation of the dispatcher calls flush exactly once on
\* every registered consumer, after the last consume call of the batch and
\* before it returns its statistics, also when the batch read no record.
C26_FlushEveryBatch ==
    dispRet.op \in {"drain", "drain_batch"} =>
        \A k \in 1..Len(consumers) : dispRet.flushes[k] = 1

(***************************************************************************)
(* Progress on the SPSC ring.                                              *)
(***************************************************************************)
\* A write_event call for a record that fits the ring is followed by the
\* acceptance of a record: the call returns true, or the retries of the
\* call do.
C27_Accepts ==
    \A n \in 0..(MaxWrites - 1) :
        (Len(accepted) = n /\ prod.pc # "idle" /\ Fits(prod.header))
            ~> (Len(accepted) > n)

\* Every accepted record is returned by read_event.
C27_Returns ==
    \A n \in 1..MaxWrites :
        (Len(accepted) >= n) ~> (Len(returned) >= n
                                   /\ returned[n] = accepted[n])

\* A call for a record of more than capacity - 1 bytes returns false.
C27_RefusedStep ==
    (prod' # prod /\ prod'.pc = "idle"
        /\ SIZE + prod.header.payload_len > spsc.capacity - 1) =>
        prod'.ret = "false" /\ accepted' = accepted

\* C27: with a consumer that keeps calling read_event, a producer that
\* retries write_event for a record with total_size <= capacity - 1 gets
\* true in the end, and every accepted record is returned by read_event in
\* the end; a record with total_size > capacity - 1 is refused at every
\* attempt.
C27_Progress == C27_Accepts /\ C27_Returns /\ [][C27_RefusedStep]_vars

\* The producer is calling write_event again for a record of 63 bytes that
\* was refused because the ring holds an unread record.
C27_Witness ==
    /\ Retrying
    /\ prod.pc = "load_tail"
    /\ TotalSize(prod.header) = spsc.capacity - 1
    /\ Len(accepted) = 1 /\ Len(returned) = 0

(***************************************************************************)
(* Properties of write_event taken one memory write at a time.             *)
(***************************************************************************)
\* C28: at every step of MmapWriter::write_event, between any two of its
\* memory writes, the header in the file, and the copy of it a reader took
\* at open, have event_count equal to the number of whole records stored in
\* [64, write_offset).
C28_HeaderConsistentMidWrite ==
    /\ file.exists =>
           InFileHeader.event_count =
               WholeRecords(file, FileHeaderSIZE, InFileHeader.write_offset)
    /\ reader.live =>
           reader.file_header.event_count =
               WholeRecords(file, FileHeaderSIZE,
                            reader.file_header.write_offset)

\* The record of the call in progress, as the file holds it once it is
\* completely written.
CallImage == HeaderBytes(wcall.header) \o wcall.payload

\* The step stores the in-file write_offset field.
PublishStep ==
    /\ wcall.step # 0
    /\ HeaderOf(file').write_offset # HeaderOf(file).write_offset

C29_State ==
    /\ file.exists =>
           FileBytes(file, FileHeaderSIZE,
                     InFileHeader.write_offset - FileHeaderSIZE)
               = RecordImages(written)
    /\ reader.live =>
           \E n \in 0..Len(written) :
               FileBytes(file, FileHeaderSIZE,
                         reader.file_header.write_offset - FileHeaderSIZE)
                   = RecordImages(SubSeq(written, 1, n))
    /\ rdRet.op = "replay" =>
           /\ ~rdRet.fault
           /\ Records(rdRet.events) = WrittenRecords(Len(rdRet.events))

C29_PublishStep ==
    PublishStep =>
        /\ FileBytes(file, wcall.at, Len(CallImage)) = CallImage
        /\ HeaderOf(file').write_offset = wcall.at + Len(CallImage)

Reserved(head, total_size, capacity) ==
    {(head + k) % capacity : k \in 0..(total_size - 1)}

C30_RingStep ==
    rbAccepted' # rbAccepted =>
        LET rec == rbAccepted'[Len(rbAccepted')]
            region == Reserved(rb.head, TotalSize(rec.header), rb.capacity)
        IN  /\ RingWritePositions(rb, rec.header, rec.payload)
                   \subseteq region
            /\ \A i \in (DOMAIN rb.buf) \ region : rb'.buf[i] = rb.buf[i]

C30_ProdState ==
    prod.pc = "store" =>
        prodWrote \subseteq
            Reserved(ProdStart, TotalSize(prod.header), spsc.capacity)

\* C30: whatever the length of the payload slice relative to
\* header.payload_len, an accepted RingBuffer::write_event or
\* Producer::write_event stores only to positions inside the region it
\* reserved, the total_size bytes from head on: never behind the backing
\* array and never to a byte of a record that has not been read.
C30_WritesInsideReserved == [](C30_ProdState) /\ [][C30_RingStep]_vars

(***************************************************************************)
(* Properties of file writes whose payload slice differs from payload_len. *)
(***************************************************************************)
\* The step is a write_event call that passed the comparison with
\* available(): it returns true, or ends in the fault of its copy.
FileWriteStep ==
    /\ writer.live
    /\ \/ Len(written') = Len(written) + 1
       \/ wrRet'.op = "fault" /\ wrRet' # wrRet

\* The payload slice of that call.
FileWriteSlice ==
    IF wrRet'.op = "fault" THEN wrRet'.payload
    ELSE written'[Len(written')].payload

C31_Step ==
    FileWriteStep =>
        LET at == writer.write_offset
            positions == WriterWritePositions(writer, wrRet'.header,
                                              FileWriteSlice)
        IN  /\ \A p \in positions : p < writer.mmap_len
            /\ \A p \in positions : p >= FileHeaderSIZE /\ p >= at
            /\ at = FileHeaderSIZE + SumSizes(written)
            /\ FileBytes(file', 0, 16) = FileBytes(file, 0, 16)
            /\ FileBytes(file', 32, 32) = FileBytes(file, 32, 32)
            /\ FileBytes(file', FileHeaderSIZE, at - FileHeaderSIZE)
                   = FileBytes(file, FileHeaderSIZE, at - FileHeaderSIZE)

\* C31: whatever the length of the payload slice relative to
\* header.payload_len, a MmapWriter::write_event call stores no byte at or
\* beyond the mapping length, and its record data overwrites no byte of the
\* 64-byte file header and no byte of an earlier record.
C31_FileWritesInsideMapping == [][C31_Step]_vars

(***************************************************************************)
(* Properties of MmapWriter::open on files with any write_offset.          *)
(***************************************************************************)
\* The writer's write_offset lies in [64, mapping length].
OffsetInRange(w) ==
    /\ FileHeaderSIZE <= w.write_offset
    /\ w.write_offset <= w.mmap_len

\* A writer outside that range has a write_offset that available() can
\* subtract from the mapping length.
C32_State ==
    writer.live /\ ~OffsetInRange(writer) =>
        writer.write_offset <= writer.mmap_len

\* A write_event call of a writer outside that range returns false and
\* leaves the file as it is.
C32_WriteStep ==
    /\ writer.live /\ ~OffsetInRange(writer)
    /\ wrRet' # wrRet
    /\ wrRet'.op \in {"write", "fault"}
    => /\ wrRet'.op = "write"
       /\ ~wrRet'.ok
       /\ file' = file

\* C32: for a file with valid magic and version whose persisted
\* write_offset is outside [64, file length], MmapWriter::open fails, or the
\* writer it yields has an available() that does not underflow and a
\* write_event that returns false and writes nothing.
C32_OpenKeepsOffsetInRange == [](C32_State) /\ [][C32_WriteStep]_vars

(***************************************************************************)
(* Properties of the mappings.                                             *)
(***************************************************************************)
\* The number of mappings a live or dropped owner accounts for.
Owned(owner) == IF owner.live THEN 1 ELSE 0

\* C33: every mapping made by MmapWriter::create, MmapWriter::open or
\* MmapReader::open is unmapped exactly once on every path, on the drop of
\* its writer or reader, or before open returns the error of a failed
\* header validation: the live mappings are those of the live writer and
\* of the live reader, and no other.
C33_MappingsOwned ==
    /\ mapped.writer = Owned(writer)
    /\ mapped.reader = Owned(reader)


\* ---------------------------------------------------------------------
\* C34: at most one Producer and at most one Consumer per ring exist at any
\* time, whatever the sequence of split calls, so two write_event calls in
\* progress on one ring never hold the same head and never store to the
\* same position of the buffer.
SameHead ==
    /\ prod.pc # "idle"
    /\ ends.parked.prod.pc # "idle"
    /\ prod.head = ends.parked.prod.head

C34_OneEndpointEach ==
    /\ ends.producers <= 1
    /\ ends.consumers <= 1
    /\ ~SameHead
    /\ prodWrote \cap ends.parked.wrote = {}

====
